---- MODULE Spec2Model ----
(***************************************************************************)
(* Verification model of the input pipeline of NordHHub                    *)
(* (scr/core/data_loading.py, scr/core/param_table.py).                    *)
(*                                                                         *)
(* A scenario directory is a set of CSV files.  load_inputs reads them,    *)
(* runs the _extract_* functions in a fixed order and returns one          *)
(* dictionary, or raises.  The model keeps the files as tables (sequences  *)
(* of rows), the local variables of load_inputs as state variables and     *)
(* one action per phase of load_inputs.                                    *)
(*                                                                         *)
(* Numbers.  Quantities, multipliers and years are integers.  Cost and     *)
(* rate coefficients (BFPipe, BLPipe, BIPipe, Bidir, RepurpArc, LossMax,   *)
(* mc) and everything derived from them are fixed-point numbers counted    *)
(* in units of 1e-5: One stands for 1.0.  The input sets are chosen so that   *)
(* every division of the formulas is exact.                                *)
(*                                                                         *)
(* Optional cells.  A cell that pandas would coerce to NaN is <<>>, a      *)
(* numeric cell v is <<v>>.                                                *)
(***************************************************************************)
EXTENDS Integers, Sequences, FiniteSets, TLC

\* ------------------------------------------------------------------------
\* Generic helpers (Python built-ins used by the code)
\* ------------------------------------------------------------------------

Range(s) == {s[i] : i \in DOMAIN s}

Max(a, b) == IF a >= b THEN a ELSE b

Min(a, b) == IF a <= b THEN a ELSE b

\* for x in s: acc = op(acc, x).  The test next = next makes TLC compute the
\* accumulator at every step instead of stacking the steps up to the end.
RECURSIVE FoldSeq(_, _, _)
FoldSeq(op(_, _), base, s) ==
    IF s = <<>> THEN base
    ELSE LET next == op(base, Head(s))
         IN  IF next = next THEN FoldSeq(op, next, Tail(s)) ELSE base

\* sorted(set(...)) of integers
RECURSIVE SortInts(_)
SortInts(S) ==
    IF S = {} THEN <<>>
    ELSE LET m == CHOOSE v \in S : \A u \in S : v <= u
         IN  <<m>> \o SortInts(S \ {m})

\* sorted(set(...)) of strings: order lists the strings of the model in
\* Python's (code point) order.
SortedBy(order, S) == SelectSeq(order, LAMBDA v : v \in S)

\* dict.get(k, d), d[k] = v, d.setdefault(k, v) for every k of keys
Get(m, k, d) == IF k \in DOMAIN m THEN m[k] ELSE d

Put(m, k, v) == (k :> v) @@ m

PutAll(m, keys, v) == [k \in keys |-> v] @@ m

SetDefaultAll(m, keys, v) == m @@ [k \in keys |-> v]

EmptyMap == <<>>

\* 1.0 in fixed-point units of 1e-5 (TLC integers are 32-bit)
One == 100 * 1000

\* ------------------------------------------------------------------------
\* Strings: str.strip(), str.upper(), str.lower() on the strings of the model
\* ------------------------------------------------------------------------

Strip(s) == CASE s = " " -> "" [] s = " G" -> "G" [] OTHER -> s

Upper(s) ==
    CASE s = "gas" -> "GAS"
      [] s = "h2" -> "H2"
      [] s = "Len" -> "LEN"
      [] s = "Std" -> "STD"
      [] s = "Var" -> "VAR"
      [] s = "Fix" -> "FIX"
      [] OTHER -> s

Lower(s) ==
    CASE s = "Pipe" -> "pipe"
      [] s = "YearStep" -> "yearstep"
      [] s = "OffshMult" -> "offshmult"
      [] s = "BFPipe" -> "bfpipe"
      [] s = "BLPipe" -> "blpipe"
      [] s = "BIPipe" -> "bipipe"
      [] s = "Bidir" -> "bidir"
      [] s = "RepurpArc" -> "repurparc"
      [] s = "Penalty" -> "penalty"
      [] s = "Penality" -> "penality"
      [] s = "DiscRate" -> "discrate"
      [] s = "BigM" -> "bigm"
      [] s = "LossMax" -> "lossmax"
      [] s = "Vola2" -> "vola2"
      [] s = "Vols2" -> "vols2"
      [] s = "maxTimeLimit" -> "maxtimelimit"
      [] s = "infeasibleOrUnbounded" -> "infeasibleorunbounded"
      [] OTHER -> s

\* Python order of the fuel labels, node names and arc ids of the model
FuelOrder == <<"", "C", "G", "H", "H2", "gas">>

NodeOrder == <<"N1", "N2", "N3", "N4">>

ArcOrder == <<"A1", "A2", "A3">>

NormalizeFuelLabel(raw) ==
    LET s == Upper(Strip(raw))
    IN  IF s \in {"GAS", "NATURAL_GAS", "NATURALGAS", "NG"} THEN "G"
        ELSE IF s \in {"HYDROGEN", "H2"} THEN "H"
        ELSE IF s \in {"COAL"} THEN "C"
        ELSE s

\* ------------------------------------------------------------------------
\* param_table.py: the generic (param, indx1, indx2, value) table
\* ------------------------------------------------------------------------

\* _prepare_dat_o: param stripped and lower-cased, indices stripped
PrepareDatO(dat_o) ==
    [i \in DOMAIN dat_o |->
        [param |-> Lower(Strip(dat_o[i].param)),
         indx1 |-> Strip(dat_o[i].indx1),
         indx2 |-> Strip(dat_o[i].indx2),
         value |-> dat_o[i].value]]

\* a variant of build_scalar_param that returns the last strictly positive value
BuildScalarParamLast(dat_o, param_name) ==
    LET rows == SelectSeq(PrepareDatO(dat_o),
                          LAMBDA r : r.param = Lower(Strip(param_name)))
        pos == SelectSeq(rows, LAMBDA r : r.value > 0)
    IN  IF pos = <<>> THEN 0 ELSE pos[Len(pos)].value

\* build_scalar_param: first strictly positive value among the rows of the
\* parameter, indices ignored, else 0.0
BuildScalarParam(dat_o, param_name) ==
    LET rows == SelectSeq(PrepareDatO(dat_o),
                          LAMBDA r : r.param = Lower(Strip(param_name)))
        pos == SelectSeq(rows, LAMBDA r : r.value > 0)
    IN  IF pos = <<>> THEN 0 ELSE pos[1].value

BuildYearstep(dat_o) == BuildScalarParam(dat_o, "yearstep")

\* 0.02, the default of build_disc_rate
DefaultDiscRate == 2 * 1000

\* build_disc_rate: the scalar discrate, 0.02 when it is not positive
BuildDiscRate(dat_o) ==
    LET value == BuildScalarParam(dat_o, "discrate")
    IN  IF value > 0 THEN value ELSE DefaultDiscRate

BuildLossMax(dat_o) ==
    LET value == BuildScalarParam(dat_o, "lossmax")
    IN  IF value > 0 THEN value ELSE 0

\* build_vola2 / build_vols2: 1.0 for every fuel of the domain, overwritten
\* by every nonzero row of the parameter (table order, last row wins).
\* Both are plain multipliers.
BuildPerFuel(dat_o, param, e_values) ==
    LET rows == SelectSeq(PrepareDatO(dat_o), LAMBDA r : r.param = param)
        e_domain == {Strip(e) : e \in e_values} \ {""}
        base == [e \in e_domain |-> 1]
        step(m, r) == IF r.indx1 = "" \/ r.value = 0 THEN m
                      ELSE Put(m, r.indx1, r.value)
    IN  FoldSeq(step, base, rows)

BuildVola2(dat_o, e_values) == BuildPerFuel(dat_o, "vola2", e_values)

BuildVols2(dat_o, e_values) == BuildPerFuel(dat_o, "vols2", e_values)

\* build_c_z: the fuels of the c_z table, c_z["e"]: the non-blank indx2 of
\* the penalty rows (or "" when there is none), once per penalty class z
PenaltyRows(dat_o) ==
    SelectSeq(PrepareDatO(dat_o), LAMBDA r : r.param \in {"penalty", "penality"})

CzFuels(dat_o) ==
    LET rows == PenaltyRows(dat_o)
        z_domain == {r.indx1 : r \in Range(rows)} \ {""}
        e_found == {r.indx2 : r \in Range(rows)} \ {""}
        e_domain == IF e_found = {} THEN {""} ELSE e_found
    IN  IF z_domain = {} THEN {} ELSE e_domain

\* build_penalty_lookup: (indx1, indx2) -> value over the penalty rows, in
\* table order, a later row replacing an earlier one with the same key
BuildPenaltyLookup(dat_o) ==
    FoldSeq(LAMBDA lookup, r : Put(lookup, <<r.indx1, r.indx2>>, r.value),
            EmptyMap, PenaltyRows(dat_o))

\* penalty_value: Penalty(z,e), then Penalty(z,''), then Penalty('','')
PenaltyValue(lookup, z, e) ==
    LET zn == Strip(z)
        en == Strip(e)
        val1 == Get(lookup, <<zn, en>>, 0)
        val2 == IF val1 <= 0 THEN Get(lookup, <<zn, "">>, 0) ELSE val1
        val3 == IF val2 <= 0 THEN Get(lookup, <<"", "">>, 0) ELSE val2
    IN  val3

\* build_c_z without z_values / e_values (lines 66-99): one value per penalty
\* class and fuel named in the penalty rows, the fuel "" when no row names one
BuildCZ(dat_o) ==
    LET rows == PenaltyRows(dat_o)
        zs == {r.indx1 : r \in Range(rows)} \ {""}
        e_found == {r.indx2 : r \in Range(rows)} \ {""}
        es == IF e_found = {} THEN {""} ELSE e_found
        lookup == BuildPenaltyLookup(dat_o)
    IN  [k \in zs \X es |-> PenaltyValue(lookup, k[1], k[2])]

\* ------------------------------------------------------------------------
\* data_loading.py: optional cells and the CSV loaders
\* ------------------------------------------------------------------------

\* pd.to_numeric(...) followed by "0.0 if pd.isna(v) else float(v)"
NumOrZero(cell) == IF cell = <<>> THEN 0 ELSE cell[1]

OptionalFiles ==
    {"timeseries", "nodes", "arcs", "regasification", "storage",
     "consumption", "production"}

\* load_*_csv: the rows of the file, or the empty, correctly-columned table
\* when the file does not exist.  dir maps each existing file to its rows.
LoadCsv(dir, name) == IF name \in DOMAIN dir THEN dir[name] ELSE <<>>

\* ------------------------------------------------------------------------
\* _extract_time_domains
\* ------------------------------------------------------------------------

ExtractTimeDomains(df_t) ==
    IF df_t = <<>> THEN [y_values |-> <<>>, h_values |-> <<>>, scaleup |-> EmptyMap]
    ELSE
      LET hs == {r.h : r \in Range(df_t)}
          chosen(h) ==
              LET vals == SelectSeq(df_t, LAMBDA r : r.h = h /\ r.scaleup > 0)
              IN  IF vals = <<>> THEN 1 ELSE vals[1].scaleup
      IN  [y_values |-> SortInts({r.y : r \in Range(df_t)}),
           h_values |-> SortInts(hs),
           scaleup |-> [h \in hs |-> chosen(h)]]

\* ------------------------------------------------------------------------
\* _extract_node_structures
\* ------------------------------------------------------------------------

ExtractNodeStructures(df_n) ==
    LET clean == SelectSeq(
                     [i \in DOMAIN df_n |->
                         [n |-> Strip(df_n[i].n), cn |-> Strip(df_n[i].cn),
                          nuts2 |-> Strip(df_n[i].nuts2), rgn |-> Strip(df_n[i].rgn)]],
                     LAMBDA r : r.n # "" /\ r.cn # "" /\ r.nuts2 # "" /\ r.rgn # "")
    IN  IF df_n = <<>>
        THEN [n_values |-> <<>>, n_in_c |-> EmptyMap, n_in_2 |-> EmptyMap,
              n_in_r |-> EmptyMap]
        ELSE [n_values |-> SortedBy(NodeOrder, {r.n : r \in Range(clean)}),
              n_in_c |-> [k \in {<<r.n, r.cn>> : r \in Range(clean)} |-> 1],
              n_in_2 |-> [k \in {<<r.n, r.nuts2>> : r \in Range(clean)} |-> 1],
              n_in_r |-> [k \in {<<r.n, r.rgn>> : r \in Range(clean)} |-> 1]]

\* ------------------------------------------------------------------------
\* _extract_consumption_data
\* ------------------------------------------------------------------------

\* the integer-named hour columns of a wide table
HourColumns(df) == IF df = <<>> THEN {} ELSE DOMAIN df[1].v

\* rows the loop keeps: node and fuel not blank, year numeric
KeptWideRows(df) ==
    SelectSeq(df, LAMBDA r : Strip(r.n) # "" /\ Strip(r.f) # "" /\ r.y # <<>>)

RECURSIVE SumOver(_, _)
SumOver(S, m) ==
    IF S = {} THEN 0
    ELSE LET k == CHOOSE v \in S : TRUE IN m[k] + SumOver(S \ {k}, m)

ExtractConsumptionData(df_c, n_in_2) ==
    LET kept == KeptWideRows(df_c)
        hours == HourColumns(df_c)
        step(m, r) ==
            [k \in {<<Strip(r.n), Strip(r.f), r.y[1], h>> : h \in hours} |->
                NumOrZero(r.v[k[4]])] @@ m
        dmd == FoldSeq(step, EmptyMap, kept)
        keys2 == {<<p[2], k[2], k[3], k[4]>> :
                     p \in {q \in DOMAIN n_in_2 : n_in_2[q] = 1}, k \in DOMAIN dmd}
        src(k2) == {k \in DOMAIN dmd :
                       /\ <<k[2], k[3], k[4]>> = <<k2[2], k2[3], k2[4]>>
                       /\ <<k[1], k2[1]>> \in DOMAIN n_in_2
                       /\ n_in_2[<<k[1], k2[1]>>] = 1}
        keys2ok == {k2 \in keys2 : src(k2) # {}}
    IN  IF df_c = <<>>
        THEN [dmd |-> EmptyMap, dmd2 |-> EmptyMap, y_values |-> <<>>,
              h_values |-> <<>>, f_values |-> <<>>]
        ELSE [dmd |-> dmd,
              dmd2 |-> [k2 \in keys2ok |-> SumOver(src(k2), dmd)],
              y_values |-> SortInts({r.y[1] : r \in Range(kept)}),
              h_values |-> IF kept = <<>> THEN <<>> ELSE SortInts(hours),
              f_values |-> SortedBy(FuelOrder, {Strip(r.f) : r \in Range(kept)})]

\* ------------------------------------------------------------------------
\* _extract_production_data
\* ------------------------------------------------------------------------

\* GAMS parity: c_p(n,e,y)$(ord(y)>2) = dat_p(n,e,'2030','MC')
RefYear == 2030

\* the carry-forward loop body shared by _extract_production_data and
\* load_inputs: with at least 3 years and 2030 among them, every (n,f) of
\* pairs that has a 2030 row overwrites c_p(n,f,y) for y in ordered_years[2:]
CarryForward(c_p, ordered_years, pairs) ==
    IF Len(ordered_years) >= 3 /\ RefYear \in Range(ordered_years)
    THEN LET late == {ordered_years[i] : i \in 3..Len(ordered_years)}
             withRef == {p \in pairs : <<p[1], p[2], RefYear>> \in DOMAIN c_p}
         IN  [k \in {<<p[1], p[2], y>> : p \in withRef, y \in late} |->
                 c_p[<<k[1], k[2], RefYear>>]] @@ c_p
    ELSE c_p

\* y_values of _extract_production_data: created as an empty set (line 725);
\* the row loop adds to f_values and h_values only (lines 735-749)
ProductionYearValues(kept) == {}

\* variant of ClipLb that leaves lb_p as the row loop wrote it
ClipLbSkipped(lb_p, cap_p) == lb_p

\* lb_p(n,e,y,h) = min(lb_p(n,e,y,h), cap_p(n,e,y,h)) over the keys of cap_p
ClipLb(lb_p, cap_p) ==
    [k \in DOMAIN cap_p |-> Min(Get(lb_p, k, 0), cap_p[k])] @@ lb_p

ExtractProductionData(df_p) ==
    LET kept == KeptWideRows(df_p)
        hours == HourColumns(df_p)
        cells(r) == {<<Strip(r.n), Strip(r.f), r.y[1], h>> : h \in hours}
        stepC(m, r) == Put(m, <<Strip(r.n), Strip(r.f), r.y[1]>>, NumOrZero(r.mc))
        stepCap(m, r) == [k \in cells(r) |-> NumOrZero(r.v[k[4]])] @@ m
        stepLb(m, r) == PutAll(m, cells(r), NumOrZero(r.lb))
        c_p0 == FoldSeq(stepC, EmptyMap, kept)
        cap_p == FoldSeq(stepCap, EmptyMap, kept)
        lb_p0 == FoldSeq(stepLb, EmptyMap, kept)
        ordered_years == SortInts(ProductionYearValues(kept))
        pairs == {<<k[1], k[2]>> : k \in DOMAIN c_p0}
    IN  IF df_p = <<>>
        THEN [cap_p |-> EmptyMap, c_p |-> EmptyMap, lb_p |-> EmptyMap,
              y_values |-> <<>>, h_values |-> <<>>, f_values |-> <<>>]
        ELSE [cap_p |-> cap_p,
              c_p |-> CarryForward(c_p0, ordered_years, pairs),
              lb_p |-> ClipLb(lb_p0, cap_p),
              y_values |-> ordered_years,
              h_values |-> IF kept = <<>> THEN <<>> ELSE SortInts(hours),
              f_values |-> SortedBy(FuelOrder, {Strip(r.f) : r \in Range(kept)})]

\* ------------------------------------------------------------------------
\* _extract_regas_data
\* ------------------------------------------------------------------------

\* only rows of year 2025 are consumed
RegasYear == 2025

\* c_lr of a fuel that is not gas
NonGasCost == 9999 * One

DefaultCLr(e) == IF NormalizeFuelLabel(e) = "G" THEN One ELSE NonGasCost

ExtractRegasData(df_r, n_values, e_values) ==
    LET keys0 == {<<n, e>> : n \in Range(n_values), e \in Range(e_values)}
        c_lr0 == [k \in keys0 |-> DefaultCLr(k[2])]
        ub_r0 == [k \in keys0 |-> 0]
        work == [i \in DOMAIN df_r |->
                    [n |-> Strip(df_r[i].n), f |-> NormalizeFuelLabel(df_r[i].f),
                     y |-> IF df_r[i].y = <<>> THEN RegasYear ELSE df_r[i].y[1],
                     cal_c |-> df_r[i].cal_c, ub |-> df_r[i].ub]]
        used == SelectSeq(work, LAMBDA r : r.n # "" /\ r.f # "" /\ r.y = RegasYear)
        cal(r) == IF r.cal_c = <<>> \/ NumOrZero(r.cal_c) <= 0 THEN One ELSE r.cal_c[1]
        stepC(m, r) == Put(m, <<r.n, r.f>>,
                           IF NormalizeFuelLabel(r.f) = "G" THEN cal(r) ELSE NonGasCost)
        stepU(m, r) == Put(m, <<r.n, r.f>>, Max(0, NumOrZero(r.ub)))
    IN  IF df_r = <<>>
        THEN [c_lr |-> c_lr0, ub_r |-> ub_r0, regas_nodes |-> <<>>, regas_fuels |-> <<>>]
        ELSE [c_lr |-> FoldSeq(stepC, c_lr0, used),
              ub_r |-> FoldSeq(stepU, ub_r0, used),
              regas_nodes |-> SortedBy(NodeOrder, {r.n : r \in Range(work)} \ {""}),
              regas_fuels |-> SortedBy(FuelOrder, {r.f : r \in Range(work)} \ {""})]

\* ------------------------------------------------------------------------
\* _extract_arc_data
\* ------------------------------------------------------------------------

\* tolerance of the opposite-arc propagation, 1e-5
Tol == 1

\* row-major product of two lists: for x in s: for y in t
Cross(s, t) ==
    [k \in 1..(Len(s) * Len(t)) |->
        <<s[((k - 1) \div Len(t)) + 1], t[((k - 1) % Len(t)) + 1]>>]

SumSeq(s) == FoldSeq(LAMBDA acc, v : acc + v, 0, s)

\* Python's true division; the operands of the model divide exactly
Div(a, b) == a \div b

\* rows kept by _extract_arc_data: ids stripped, fuel canonicalised, rows
\* with a blank id, endpoint or fuel dropped
ArcWork(df_a) ==
    SelectSeq(
        [i \in DOMAIN df_a |->
            [df_a[i] EXCEPT !.a = Strip(@), !.start = Strip(@), !.end = Strip(@),
                            !.f = NormalizeFuelLabel(@)]],
        LAMBDA r : r.a # "" /\ r.start # "" /\ r.end # "" /\ r.f # "")

\* dat_o_norm: param lower-cased, indices upper-cased, blank-like tokens
\* canonicalised to the empty string
BlankToken(s) == IF s \in {"NAN", "NONE", "NULL"} THEN "" ELSE s

DatONorm(dat_o) ==
    [i \in DOMAIN dat_o |->
        [param |-> Lower(Strip(dat_o[i].param)),
         indx1 |-> BlankToken(Upper(Strip(dat_o[i].indx1))),
         indx2 |-> BlankToken(Upper(Strip(dat_o[i].indx2))),
         value |-> dat_o[i].value]]

\* _o_value on the normalised table o: the value of the FIRST row with that
\* param and indices
OValue(o, param, indx1, indx2, default) ==
    LET rows == SelectSeq(o, LAMBDA r : /\ r.param = Lower(param)
                                        /\ r.indx1 = Upper(Strip(indx1))
                                        /\ r.indx2 = Upper(Strip(indx2)))
    IN  IF rows = <<>> THEN default ELSE rows[1].value

\* lines 475-506: the normalised table and the scalars and default rows read
\* from it once
ArcParams(dat_o) ==
    LET o == DatONorm(dat_o)
    IN  [o |-> o,
         offsh_mult |-> Max(0, OValue(o, "offshmult", "", "", 0) - 1),
         pipe_len_std |-> OValue(o, "pipe", "LEN", "STD", 0),
         year_step |-> OValue(o, "yearstep", "", "", 0),
         bf_default |-> OValue(o, "bfpipe", "", "", 0),
         bl_default |-> OValue(o, "blpipe", "", "", 0),
         bi_default |-> OValue(o, "bipipe", "", "", 0),
         bidir_var_default |-> OValue(o, "bidir", "VAR", "", 0),
         bidir_fix |-> OValue(o, "bidir", "FIX", "", 0),
         repurp_var_default |-> OValue(o, "repurparc", "", "", 0)]

\* per-fuel coefficient with fallback to the default row when <= 0
OFuelValue(o, param, indx1, indx2, default_row) ==
    LET v == OValue(o, param, indx1, indx2, 0)
    IN  IF v <= 0 THEN default_row ELSE v

\* calibration factor: 1 when <= 0
Cal(v) == IF v <= 0 THEN 1 ELSE v

RowsOfArc(work, a) == SelectSeq(work, LAMBDA r : r.a = a)

\* arc_endpoints: start and end of the first row of the arc
ArcEndpoints(work, a) ==
    LET rows == RowsOfArc(work, a) IN <<rows[1].start, rows[1].end>>

\* opp(ai,ao) = 1 for two different arcs with exactly reversed endpoints
OppPairs(work, a_values) ==
    LET ends == [a \in Range(a_values) |-> ArcEndpoints(work, a)]
    IN  {p \in Range(a_values) \X Range(a_values) :
            /\ p[1] # p[2]
            /\ ends[p[1]][1] = ends[p[2]][2]
            /\ ends[p[1]][2] = ends[p[2]][1]}

\* the last row of rows that carries fuel f (later rows overwrite earlier)
LastRow(rows, f) ==
    LET sel == SelectSeq(rows, LAMBDA r : r.f = f) IN sel[Len(sel)]

\* cal_x_by_f.get(f, 1.0) and its siblings: keyed by the fuel of the rows
CalByFuel(rows, f, col) ==
    IF \E i \in DOMAIN rows : rows[i].f = f THEN Cal(LastRow(rows, f)[col]) ELSE 1

\* repurp_var: RepurpArc(e,f), the default row when <= 0, 0 when e is f
RepurpVar(p, e, f) ==
    IF Upper(e) = Upper(f) THEN 0
    ELSE OFuelValue(p.o, "repurparc", e, f, p.repurp_var_default)

\* a variant of the is_bid flag that counts a zero sum as bidirectional
IsBidOfRowsNonNegative(rows) ==
    IF SumSeq([i \in DOMAIN rows |-> rows[i].bidir]) >= 0 THEN 1 ELSE 0

\* line 606: is_bid[a] = 1 if rows_a["bidir"].sum() > 0 else 0
IsBidOfRows(rows) ==
    IF SumSeq([i \in DOMAIN rows |-> rows[i].bidir]) > 0 THEN 1 ELSE 0

\* lines 549-643 for one arc: the values the per-arc loop computes, before
\* they are broadcast over the years
ArcOwnValues(rows, p, all_fuels, vola2, loss_max) ==
    LET F == Range(all_fuels)
        RF == {rows[i].f : i \in DOMAIN rows}
        len_agg == SumSeq([i \in DOMAIN rows |-> rows[i].len])
        off_agg == Min(len_agg, SumSeq([i \in DOMAIN rows |-> rows[i].off]))
        cost_len == len_agg + p.offsh_mult * off_agg
    IN  [is_bid |-> IsBidOfRows(rows),
         cap_a |-> [f \in RF |-> Max(0, LastRow(rows, f).cap)],
         c_a |-> [f \in RF |->
                    Div(OFuelValue(p.o, "bfpipe", f, "", p.bf_default) * Get(vola2, f, 1)
                            * cost_len * Cal(LastRow(rows, f).cal_c),
                        p.pipe_len_std)],
         e_a |-> [f \in RF |->
                    Max(One - loss_max,
                        One - Div(OFuelValue(p.o, "blpipe", f, "", p.bl_default) * len_agg
                                      * Cal(LastRow(rows, f).cal_l),
                                  p.pipe_len_std))],
         c_ax |-> [f \in F |->
                     Div(Div(OFuelValue(p.o, "bipipe", f, "", p.bi_default) * cost_len
                                 * CalByFuel(rows, f, "cal_x"),
                             p.pipe_len_std), p.year_step)],
         c_ab |-> [f \in F |->
                     Div(Div(OFuelValue(p.o, "bidir", "VAR", f, p.bidir_var_default)
                                 * (len_agg + off_agg) * CalByFuel(rows, f, "cal_b"),
                             p.pipe_len_std), p.year_step)],
         c_ar |-> [k \in F \X F |->
                     Div(Div(RepurpVar(p, k[1], k[2]) * cost_len
                                 * CalByFuel(rows, k[1], "cal_r"),
                             p.pipe_len_std), p.year_step)],
         f_ar |-> [k \in F \X F |->
                     Div(OValue(p.o, "repurparc", "FIX", k[2], 0)
                             * CalByFuel(rows, k[1], "cal_r"),
                         p.year_step)],
         f_ab |-> Div(p.bidir_fix, p.year_step)]

\* the maps as the per-arc loop (lines 549-643) leaves them
ArcOwnMaps(work, p, a_values, all_fuels, y_values, vola2, loss_max) ==
    LET A == Range(a_values)
        F == Range(all_fuels)
        Y == Range(y_values)
        own == [a \in A |-> ArcOwnValues(RowsOfArc(work, a), p, all_fuels, vola2, loss_max)]
        rowKeys == {k \in A \X F : k[2] \in DOMAIN own[k[1]].c_a}
        rowKeysY == {<<k[1], k[2], y>> : k \in rowKeys, y \in Y}
    IN  [is_bid |-> [a \in A |-> own[a].is_bid],
         e_a |-> [k \in rowKeys |-> own[k[1]].e_a[k[2]]],
         cap_a |-> [k \in rowKeysY |-> own[k[1]].cap_a[k[2]]],
         c_a |-> [k \in rowKeysY |-> own[k[1]].c_a[k[2]]],
         c_ax |-> [k \in A \X F \X Y |-> own[k[1]].c_ax[k[2]]],
         c_ab |-> [k \in A \X F \X Y |-> own[k[1]].c_ab[k[2]]],
         c_ar |-> [k \in A \X F \X F \X Y |-> own[k[1]].c_ar[<<k[2], k[3]>>]],
         f_ar |-> [k \in A \X F \X F \X Y |-> own[k[1]].f_ar[<<k[2], k[3]>>]],
         f_ab |-> [k \in A \X Y |-> own[k[1]].f_ab]]

\* the (ai, ao) pairs the propagation loops visit, in loop order
OppSeq(a_values, opp) == SelectSeq(Cross(a_values, a_values), LAMBDA p : p \in opp)

\* variant of PropagateOpposite that copies nothing
PropagateOppositeSkipped(m, opp, a_values, all_fuels, y_values) == m

\* lines 645-657: copy c_a, c_ax, c_ab, f_ab, e_a and is_bid from ai to its
\* opposite ao where ai is positive and ao is within the tolerance of zero.
\* The loop updates the maps in place, so later visits see earlier copies.
PropagateOpposite(m, opp, a_values, all_fuels, y_values) ==
    LET visits == Cross(Cross(OppSeq(a_values, opp), all_fuels), y_values)
        step(st, v) ==
            LET ai == v[1][1][1]
                ao == v[1][1][2]
                f == v[1][2]
                y == v[2]
            IN  IF Get(st.c_a, <<ai, f, y>>, 0) > 0 /\ Get(st.c_a, <<ao, f, y>>, 0) <= Tol
                THEN [st EXCEPT
                        !.c_a = Put(@, <<ao, f, y>>, st.c_a[<<ai, f, y>>]),
                        !.c_ax = Put(@, <<ao, f, y>>, Get(st.c_ax, <<ai, f, y>>, 0)),
                        !.c_ab = Put(@, <<ao, f, y>>, Get(st.c_ab, <<ai, f, y>>, 0)),
                        !.f_ab = Put(@, <<ao, y>>, Get(st.f_ab, <<ai, y>>, 0)),
                        !.e_a = Put(@, <<ao, f>>,
                                    Get(st.e_a, <<ai, f>>, Get(st.e_a, <<ao, f>>, One))),
                        !.is_bid = Put(@, ao, Get(st.is_bid, ai, Get(st.is_bid, ao, 0)))]
                ELSE st
    IN  FoldSeq(step, m, visits)

\* lines 659-672: the same for c_ar and f_ar, per ordered fuel pair
PropagateRepurp(m, opp, a_values, all_fuels, y_values) ==
    LET visits == Cross(Cross(Cross(OppSeq(a_values, opp), all_fuels), all_fuels),
                        y_values)
        step(st, v) ==
            LET ai == v[1][1][1][1]
                ao == v[1][1][1][2]
                e == v[1][1][2]
                f == v[1][2]
                y == v[2]
                src_car == Get(st.c_ar, <<ai, e, f, y>>, 0)
                dst_car == Get(st.c_ar, <<ao, e, f, y>>, 0)
                src_far == Get(st.f_ar, <<ai, e, f, y>>, 0)
                dst_far == Get(st.f_ar, <<ao, e, f, y>>, 0)
            IN  IF (src_car > 0 /\ dst_car <= Tol) \/ (src_far > 0 /\ dst_far <= Tol)
                THEN [st EXCEPT !.c_ar = Put(@, <<ao, e, f, y>>, src_car),
                                !.f_ar = Put(@, <<ao, e, f, y>>, src_far)]
                ELSE st
    IN  FoldSeq(step, m, visits)

\* variant of ArcDefaults that adds no default entry
ArcDefaultsSkipped(m, a_values, all_fuels, y_values) == m

\* lines 674-689: every (a,f[,y]) and (a,e,f,y) combination gets a default
ArcDefaults(m, a_values, all_fuels, y_values) ==
    LET A == Range(a_values)
        F == Range(all_fuels)
        Y == Range(y_values)
    IN  [m EXCEPT
           !.is_bid = SetDefaultAll(@, A, 0),
           !.e_a = SetDefaultAll(@, A \X F, One),
           !.cap_a = SetDefaultAll(@, A \X F \X Y, 0),
           !.c_a = SetDefaultAll(@, A \X F \X Y, 0),
           !.c_ax = SetDefaultAll(@, A \X F \X Y, 0),
           !.c_ab = SetDefaultAll(@, A \X F \X Y, 0),
           !.f_ab = SetDefaultAll(@, {<<a, y>> : a \in A, y \in {u \in Y : F # {}}}, 0),
           !.c_ar = SetDefaultAll(@, A \X F \X F \X Y, 0),
           !.f_ar = SetDefaultAll(@, A \X F \X F \X Y, 0)]

\* variant of ZeroSelfRepurp that leaves the diagonal as computed
ZeroSelfRepurpSkipped(m, a_values, all_fuels, y_values) == m

\* lines 691-695: repurposing a fuel into itself costs nothing
ZeroSelfRepurp(m, a_values, all_fuels, y_values) ==
    LET diag == {<<a, e, e, y>> : a \in Range(a_values), e \in Range(all_fuels),
                                  y \in Range(y_values)}
    IN  [m EXCEPT !.c_ar = PutAll(@, diag, 0), !.f_ar = PutAll(@, diag, 0)]

\* variant of ArcScalarError that rejects a scalar only when it is exactly 0
ArcScalarErrorZeroOnly(p) ==
    IF p.pipe_len_std = 0
    THEN "other.csv must define Pipe,Len,Std with a positive value for arc formulas."
    ELSE IF p.year_step = 0
    THEN "other.csv must define YearStep with a positive value for arc investment formulas."
    ELSE ""

\* the two required scalars of other.csv (lines 494-499); the message of the
\* ValueError raised, "" when both are positive
ArcScalarError(p) ==
    IF p.pipe_len_std <= 0
    THEN "other.csv must define Pipe,Len,Std with a positive value for arc formulas."
    ELSE IF p.year_step <= 0
    THEN "other.csv must define YearStep with a positive value for arc investment formulas."
    ELSE ""

\* the tuple returned for an empty arcs table (line 463): 15 values
EmptyArcReturn ==
    <<<<>>, EmptyMap, EmptyMap, EmptyMap, EmptyMap, EmptyMap, EmptyMap, EmptyMap,
      EmptyMap, EmptyMap, EmptyMap, EmptyMap, EmptyMap, <<>>, <<>>>>

\* line 702: the returned tuple of 16 values
ArcReturn(a_values, ends, opp, m, arc_nodes, arc_fuels) ==
    LET A == Range(a_values)
        opp_of(a) == SortedBy(ArcOrder, {ao \in A : <<a, ao>> \in opp})
    IN  <<a_values,
          [k \in {<<a, ends[a][1]>> : a \in A} |-> 1],
          [k \in {<<a, ends[a][2]>> : a \in A} |-> 1],
          [k \in A \X A |-> IF k \in opp THEN 1 ELSE 0],
          m.is_bid,
          [a \in A |-> IF opp_of(a) = <<>> THEN "" ELSE opp_of(a)[1]],
          m.cap_a, m.c_a, m.c_ax, m.c_ab, m.c_ar, m.f_ar, m.f_ab, m.e_a,
          arc_nodes, arc_fuels>>

ExtractArcData(df_a, dat_o, y_values, e_values, vola2, loss_max) ==
    LET work == ArcWork(df_a)
        a_values == SortedBy(ArcOrder, {r.a : r \in Range(work)})
        arc_nodes == SortedBy(NodeOrder, {r.start : r \in Range(work)}
                                             \cup {r.end : r \in Range(work)})
        arc_fuels == SortedBy(FuelOrder, {r.f : r \in Range(work)})
        all_fuels == SortedBy(FuelOrder, Range(e_values) \cup Range(arc_fuels))
        opp == OppPairs(work, a_values)
        p == ArcParams(dat_o)
        own == ArcOwnMaps(work, p, a_values, all_fuels, y_values, vola2, loss_max)
        m1 == PropagateOpposite(own, opp, a_values, all_fuels, y_values)
        m2 == PropagateRepurp(m1, opp, a_values, all_fuels, y_values)
        m3 == ArcDefaults(m2, a_values, all_fuels, y_values)
        m == ZeroSelfRepurp(m3, a_values, all_fuels, y_values)
        A == Range(a_values)
        ends == [a \in A |-> ArcEndpoints(work, a)]
    IN  IF df_a = <<>> THEN [raised |-> FALSE, error |-> "", ret |-> EmptyArcReturn]
        ELSE IF ArcScalarError(p) # ""
        THEN [raised |-> TRUE, error |-> ArcScalarError(p), ret |-> <<>>]
        ELSE [raised |-> FALSE, error |-> "",
              ret |-> ArcReturn(a_values, ends, opp, m, arc_nodes, arc_fuels)]

\* ------------------------------------------------------------------------
\* _extract_storage_data
\* ------------------------------------------------------------------------

HoursPerYear == 8760

\* dat_w_map.get((n, f, key), 0.0): the last row of (n, f) wins
DatW(work, n, f, col) ==
    LET rows == SelectSeq(work, LAMBDA r : r.n = n /\ r.f = f)
    IN  IF rows = <<>> THEN 0 ELSE rows[Len(rows)][col]

\* extraction / injection capacity with the hydrogen <-> gas fallback
StorageRate(work, vols2_h, n, e_norm, col) ==
    LET raw == DatW(work, n, e_norm, col)
        fromG == IF raw <= 0 /\ e_norm = "H"
                 THEN (IF vols2_h # 0 THEN Div(DatW(work, n, "G", col), vols2_h) ELSE 0)
                 ELSE raw
    IN  IF fromG <= 0 /\ e_norm = "G" THEN DatW(work, n, "H", col) * vols2_h ELSE fromG

ExtractStorageData(df_s, n_values, e_values, y_values, h_values, scaleup, vols2) ==
    LET work == [i \in DOMAIN SelectSeq(df_s, LAMBDA r : Strip(r.n) # "" /\ Strip(r.f) # "")
                   |-> [SelectSeq(df_s, LAMBDA r : Strip(r.n) # "" /\ Strip(r.f) # "")[i]
                           EXCEPT !.n = Strip(@), !.f = NormalizeFuelLabel(Strip(@))]]
        stor_nodes == SortedBy(NodeOrder, {r.n : r \in Range(work)})
        stor_fuels == SortedBy(FuelOrder, {r.f : r \in Range(work)})
        sum_scaleup == SumSeq([i \in DOMAIN h_values |-> Get(scaleup, h_values[i], 1)])
        vols2_h == Get(vols2, "H", 1)
        all_nodes == Range(n_values) \cup Range(stor_nodes)
        keys == {<<n, NormalizeFuelLabel(e)>> : n \in all_nodes, e \in Range(e_values)}
        keysY == {<<k[1], k[2], y>> : k \in keys, y \in Range(y_values)}
        ww(k) == IF sum_scaleup > 0
                 THEN Div(DatW(work, k[1], k[2], "w") * sum_scaleup, HoursPerYear)
                 ELSE 0
    IN  [cap_we |-> [k \in keysY |-> Max(0, StorageRate(work, vols2_h, k[1], k[2], "x"))],
         cap_wi |-> [k \in keysY |-> Max(0, StorageRate(work, vols2_h, k[1], k[2], "i"))],
         cap_ww |-> [k \in keysY |-> Max(0, ww(k))],
         c_we |-> [k \in keys |-> Get(vols2, k[2], 1) * Cal(DatW(work, k[1], k[2], "cal_c"))],
         e_w |-> [k \in keys |->
                    One - Div(One, 100) * Cal(DatW(work, k[1], k[2], "cal_l"))],
         stor_nodes |-> stor_nodes,
         stor_fuels |-> stor_fuels]

\* ------------------------------------------------------------------------
\* load_inputs as a state machine
\* ------------------------------------------------------------------------

VARIABLES
    dir,             \* the scenario directory: existing file |-> its rows
    pc,              \* position inside load_inputs (or inside a direct call)
    dat,             \* dat_o, dat_t, dat_nodes, ...: the loaded tables
    time,            \* y_values, h_values, scaleup of the timeseries
    nodes,           \* n_in_c, n_in_2, n_in_r and the nodes of nodes.csv
    cons,            \* dmd, dmd2, y_dmd, h_dmd, f_dmd
    prod,            \* cap_p, c_p, lb_p, y_prod, h_prod, f_prod
    regas,           \* c_lr, ub_r, regas_nodes, regas_fuels
    n_values,        \* the node domain, widened source by source
    e_values,        \* the fuel domain, widened source by source
    final_y_values,  \* the year domain
    final_h_values,  \* the hour domain
    arcs,            \* the tuple returned by _extract_arc_data
    stor,            \* the storage maps
    outcome,         \* "running", "returned" or "raised"
    error,           \* the message of the exception raised
    call,            \* a call of a param_table function: arguments, position, result
    lp,              \* a built optimisation model and one assignment of its variables
    run              \* a run of solve_pipeline.main

\* the variables of load_inputs, and the others
loadVars == <<dir, pc, dat, time, nodes, cons, prod, regas, n_values, e_values,
              final_y_values, final_h_values, arcs, stor, outcome, error>>

otherVars == <<call, lp, run>>

vars == <<loadVars, otherVars>>

\* nothing called, built or run
NoCall == [pc |-> "idle"]

NoLp == [pc |-> "idle"]

NoRun == [pc |-> "idle"]

NoTime == [y_values |-> <<>>, h_values |-> <<>>, scaleup |-> EmptyMap]

NoNodes == [n_values |-> <<>>, n_in_c |-> EmptyMap, n_in_2 |-> EmptyMap, n_in_r |-> EmptyMap]

NoCons == [dmd |-> EmptyMap, dmd2 |-> EmptyMap, y_values |-> <<>>, h_values |-> <<>>,
           f_values |-> <<>>]

NoProd == [cap_p |-> EmptyMap, c_p |-> EmptyMap, lb_p |-> EmptyMap, y_values |-> <<>>,
           h_values |-> <<>>, f_values |-> <<>>]

NoRegas == [c_lr |-> EmptyMap, ub_r |-> EmptyMap, regas_nodes |-> <<>>, regas_fuels |-> <<>>]

NoStor == [cap_we |-> EmptyMap, cap_wi |-> EmptyMap, cap_ww |-> EmptyMap, c_we |-> EmptyMap,
           e_w |-> EmptyMap, stor_nodes |-> <<>>, stor_fuels |-> <<>>]

\* the state of a call that has read nothing yet
Fresh(d, start) ==
    /\ dir = d
    /\ pc = start
    /\ dat = EmptyMap
    /\ time = NoTime
    /\ nodes = NoNodes
    /\ cons = NoCons
    /\ prod = NoProd
    /\ regas = NoRegas
    /\ n_values = <<>>
    /\ e_values = <<>>
    /\ final_y_values = <<>>
    /\ final_h_values = <<>>
    /\ arcs = <<>>
    /\ stor = NoStor
    /\ outcome = "running"
    /\ error = ""
    /\ call = NoCall
    /\ lp = NoLp
    /\ run = NoRun

\* lines 972-983: the loaders, others -> timeseries -> nodes -> arcs -> regas
\* -> storage -> consumption -> production
LoadTables ==
    /\ pc = "load"
    /\ dat' = [other |-> dir["other"],
               timeseries |-> LoadCsv(dir, "timeseries"),
               nodes |-> LoadCsv(dir, "nodes"),
               arcs |-> LoadCsv(dir, "arcs"),
               regasification |-> LoadCsv(dir, "regasification"),
               storage |-> LoadCsv(dir, "storage"),
               consumption |-> LoadCsv(dir, "consumption"),
               production |-> LoadCsv(dir, "production")]
    /\ pc' = "domains"
    /\ UNCHANGED <<dir, time, nodes, cons, prod, regas, n_values, e_values,
                   final_y_values, final_h_values, arcs, stor, outcome, error>>
    /\ UNCHANGED otherVars

\* line 991: the first fuel domain
FirstFuelDomain(d, f_dmd, f_prod) ==
    SortedBy(FuelOrder,
             CzFuels(d.other) \cup Range(f_dmd) \cup Range(f_prod)
                 \cup {NormalizeFuelLabel(r.f) : r \in Range(d.regasification)}
                 \cup {NormalizeFuelLabel(r.f) : r \in Range(d.storage)})

\* lines 994-997: default rows of c_lr / ub_r for the nodes known so far
BackfillRegas(r, ns, es) ==
    LET keys == {<<n, e>> : n \in Range(ns), e \in Range(es)}
    IN  [r EXCEPT !.c_lr = [k \in keys \ DOMAIN r.c_lr |-> DefaultCLr(k[2])] @@ @,
                  !.ub_r = SetDefaultAll(@, keys, 0)]

\* lines 984-999: time, nodes, consumption, production, fuels, regasification
ExtractDomains ==
    /\ pc = "domains"
    /\ \E t \in {ExtractTimeDomains(dat.timeseries)},
          n \in {ExtractNodeStructures(dat.nodes)},
          p \in {ExtractProductionData(dat.production)} :
        \E c \in {ExtractConsumptionData(dat.consumption, n.n_in_2)} :
        \E es \in {FirstFuelDomain(dat, c.f_values, p.f_values)} :
        \E r \in {ExtractRegasData(dat.regasification, n.n_values, es)} :
        \E ns \in {SortedBy(NodeOrder, Range(n.n_values) \cup Range(r.regas_nodes))} :
           /\ time' = t
           /\ nodes' = n
           /\ cons' = c
           /\ prod' = p
           /\ e_values' = es
           /\ regas' = BackfillRegas(r, ns, es)
           /\ n_values' = ns
           /\ final_y_values' = SortInts(Range(t.y_values) \cup Range(c.y_values)
                                             \cup Range(p.y_values))
           /\ final_h_values' = SortInts(Range(t.h_values) \cup Range(c.h_values)
                                             \cup Range(p.h_values))
    /\ pc' = "arcs"
    /\ UNCHANGED <<dir, dat, arcs, stor, outcome, error>>
    /\ UNCHANGED otherVars

\* the number of names load_inputs unpacks the arc tuple into (line 1003)
ArcTupleSize == 16

\* lines 1001-1012: arc extraction; a ValueError of the extractor or of the
\* tuple unpacking ends load_inputs
ExtractArcs ==
    /\ pc = "arcs"
    /\ \E r \in {ExtractArcData(dat.arcs, dat.other, final_y_values, e_values,
                                 BuildVola2(dat.other, Range(e_values)),
                                 BuildLossMax(dat.other))} :
           IF r.raised
           THEN /\ outcome' = "raised"
                /\ error' = r.error
                /\ pc' = "done"
                /\ UNCHANGED <<arcs, n_values, e_values>>
           ELSE IF Len(r.ret) # ArcTupleSize
           THEN /\ outcome' = "raised"
                /\ error' = "not enough values to unpack (expected 16, got 15)"
                /\ pc' = "done"
                /\ UNCHANGED <<arcs, n_values, e_values>>
           ELSE /\ arcs' = r.ret
                /\ n_values' = SortedBy(NodeOrder, Range(n_values) \cup Range(r.ret[15]))
                /\ e_values' = SortedBy(FuelOrder, Range(e_values) \cup Range(r.ret[16]))
                /\ pc' = "carry"
                /\ UNCHANGED <<outcome, error>>
    /\ UNCHANGED <<dir, dat, time, nodes, cons, prod, regas, final_y_values,
                   final_h_values, stor>>
    /\ UNCHANGED otherVars

\* lines 1014-1031: scaleUp defaults and the carry-forward over the full
\* year domain, for the nodes x fuels of c_p
CarryForwardAll ==
    /\ pc = "carry"
    /\ time' = [time EXCEPT !.scaleup = SetDefaultAll(@, Range(final_h_values), 1)]
    /\ prod' = [prod EXCEPT !.c_p =
                   CarryForward(@, final_y_values,
                                {k[1] : k \in DOMAIN prod.c_p}
                                    \X {k[2] : k \in DOMAIN prod.c_p})]
    /\ pc' = "storage"
    /\ UNCHANGED <<dir, dat, nodes, cons, regas, n_values, e_values, final_y_values,
                   final_h_values, arcs, stor, outcome, error>>
    /\ UNCHANGED otherVars

\* lines 1033-1115: storage extraction and the returned dictionary
ExtractStorage ==
    /\ pc = "storage"
    /\ \E s \in {ExtractStorageData(dat.storage, n_values, e_values, final_y_values,
                                    final_h_values, time.scaleup,
                                    BuildVols2(dat.other, Range(e_values)))} :
           /\ stor' = s
           /\ n_values' = SortedBy(NodeOrder, Range(n_values) \cup Range(s.stor_nodes))
    /\ outcome' = "returned"
    /\ pc' = "done"
    /\ UNCHANGED <<dir, dat, time, nodes, cons, prod, regas, e_values, final_y_values,
                   final_h_values, arcs, error>>
    /\ UNCHANGED otherVars

Next == LoadTables \/ ExtractDomains \/ ExtractArcs \/ CarryForwardAll \/ ExtractStorage

\* ------------------------------------------------------------------------
\* Calls of the param_table functions
\* ------------------------------------------------------------------------

\* build_c_z line 92: the lookup of the penalty rows
BuildPenaltyLookupCall ==
    /\ call.pc = "penalty_ready"
    /\ call' = [call EXCEPT !.lookup = BuildPenaltyLookup(call.dat_o), !.pc = "lookup"]
    /\ UNCHANGED <<loadVars, lp, run>>

\* build_c_z line 97: penalty_value(lookup, z, e)
PenaltyValueCall ==
    /\ call.pc = "lookup"
    /\ call' = [call EXCEPT !.result = PenaltyValue(call.lookup, call.z, call.e),
                            !.pc = "penalty"]
    /\ UNCHANGED <<loadVars, lp, run>>

NextPenalty == BuildPenaltyLookupCall \/ PenaltyValueCall

BuildScalarParamCall ==
    /\ call.pc = "scalar_ready"
    /\ call' = [call EXCEPT !.result = BuildScalarParam(call.dat_o, call.param_name),
                            !.pc = "scalar"]
    /\ UNCHANGED <<loadVars, lp, run>>

BuildDiscRateCall ==
    /\ call.pc = "scalar_ready"
    /\ call' = [call EXCEPT !.result = BuildDiscRate(call.dat_o), !.pc = "disc_rate"]
    /\ UNCHANGED <<loadVars, lp, run>>

NextScalar == BuildScalarParamCall \/ BuildDiscRateCall

\* ------------------------------------------------------------------------
\* model.py: build_base_model_with_cz, the investment block
\*
\* A built model m is a record: the sets A, E, N, H, the ordered years Y, the
\* parameters, and one value per variable index assigned so far.  The
\* variables are keyed as in the code, e.g. K_A[<<a, e, y>>].  BD lies in
\* [0,1] and is counted in units of 1/BDOne.  Every constraint of the block
\* is an operator named after the Pyomo component, stated for one year y.
\* ------------------------------------------------------------------------

\* BD = 1.0
BDOne == 2

\* the largest value the solver is let to assign to a variable
MaxStock == 2

\* first_y and y_prev_map (lines 563-564)
first_y(m) == m.Y[1]

y_pos(m, y) == CHOOSE i \in DOMAIN m.Y : m.Y[i] = y

\* the years y2 with ypred(y2, y) = 1
YPred(m, y) == {y2 \in Range(m.Y) : y_pos(m, y) - y_pos(m, y2) = 1}

\* the years y2 with yscai(y2, y) = 1, i.e. y_pos[y] <= y_pos[y2]
YScai(m, y) == {y2 \in Range(m.Y) : y_pos(m, y) <= y_pos(m, y2)}

\* sum of f over a finite set
RECURSIVE SumSet(_, _)
SumSet(S, f) ==
    IF S = {} THEN 0
    ELSE LET x == CHOOSE v \in S : TRUE IN f[x] + SumSet(S \ {x}, f)

\* variants of the first-year and one-destination rules that constrain nothing
k_a_init_skipped(m, y) == TRUE

sos_a_skipped(m, y) == TRUE

bidir_skipped(m, y) == TRUE

\* variants of the big-M link and of the stock balance that constrain nothing
bil_a2_skipped(m, y) == TRUE

ar_cap_skipped(m, y) == TRUE

\* a variant of bd_cost that covers the reverse capacity of the same year only
bd_cost_same_year(m, y, y2) ==
    \A a \in m.A, e \in m.E :
        (m.is_bid[a] # 1 /\ y2 = y) =>
            m.K_BD[<<a, e, y>>] >=
                m.K_OPP[<<a, e, y2>>] - (1 - m.B_BD[<<a, y>>]) * m.bigM

\* lines 567-576
k_a_init(m, y) ==
    \A a \in m.A, e \in m.E :
        y = first_y(m) => m.K_A[<<a, e, y>>] = m.cap_a[<<a, e, y>>]

\* lines 579-588
k_w_init(m, y) ==
    \A n \in m.N, e \in m.E :
        y = first_y(m) => m.K_W[<<n, e, y>>] = m.cap_ww[<<n, e, y>>]

\* lines 591-604
ar_cap(m, y) ==
    \A a \in m.A, e \in m.E :
        y # first_y(m) =>
            m.K_A[<<a, e, y>>] =
                SumSet(m.E, [f \in m.E |-> m.K_RA[<<a, f, e, y>>]])
                    + SumSet(YPred(m, y), [y2 \in YPred(m, y) |-> m.X_A[<<a, e, y2>>]])

\* lines 606-617
wr_cap(m, y) ==
    \A n \in m.N, e \in m.E :
        y # first_y(m) =>
            m.K_W[<<n, e, y>>] = SumSet(m.E, [f \in m.E |-> m.K_RW[<<n, f, e, y>>]])

\* lines 620-628
a_lim(m, y) ==
    \A a \in m.A, e \in m.E, h \in m.H :
        m.F_A[<<a, e, y, h>>] * m.vola2[e] <= m.K_A[<<a, e, y>>] + m.K_OPP[<<a, e, y>>]

\* lines 629-635, both sides multiplied by BDOne
a_opp1(m, y) ==
    \A a \in m.A, e \in m.E :
        m.K_OPP[<<a, e, y>>] * BDOne <= m.BD[<<a, y>>] * m.bigM

\* lines 636-642
a_opp2(m, y) ==
    \A a \in m.A, e \in m.E :
        m.K_OPP[<<a, e, y>>] <=
            SumSet(m.A, [ao \in m.A |-> m.opp[<<ao, a>>] * m.K_A[<<ao, e, y>>]])

\* lines 643-651
k_bd_fix_is_bid(m, y) ==
    \A a \in m.A, e \in m.E : m.is_bid[a] = 1 => m.K_BD[<<a, e, y>>] = 0

\* lines 652-664, for the pair (y, y2)
bd_cost(m, y, y2) ==
    \A a \in m.A, e \in m.E :
        (m.is_bid[a] # 1 /\ y2 \in YScai(m, y)) =>
            m.K_BD[<<a, e, y>>] >=
                m.K_OPP[<<a, e, y2>>] - (1 - m.B_BD[<<a, y>>]) * m.bigM

\* lines 665-672
bd_fix_is_bid(m, y) ==
    \A a \in m.A : m.is_bid[a] = 1 => m.BD[<<a, y>>] = BDOne

\* lines 673-684
bidir(m, y) ==
    \A a \in m.A :
        m.is_bid[a] # 1 =>
            m.BD[<<a, y>>] <=
                m.B_BD[<<a, y>>] * BDOne
                    + SumSet(YPred(m, y), [y2 \in YPred(m, y) |-> m.BD[<<a, y2>>]])

\* lines 686-696
sos_a(m, y) ==
    \A a \in m.A, e \in m.E :
        y # first_y(m) => SumSet(m.E, [f \in m.E |-> m.B_AR[<<a, e, f, y>>]]) = 1

\* lines 698-708
sos_w(m, y) ==
    \A n \in m.N, e \in m.E :
        y # first_y(m) => SumSet(m.E, [f \in m.E |-> m.B_WR[<<n, e, f, y>>]]) = 1

\* lines 710-720
b_ar_fix_first(m, y) ==
    \A a \in m.A, e \in m.E, f \in m.E : y = first_y(m) => m.B_AR[<<a, e, f, y>>] = 0

\* lines 722-732
k_ra_fix_first(m, y) ==
    \A a \in m.A, e \in m.E, f \in m.E : y = first_y(m) => m.K_RA[<<a, e, f, y>>] = 0

\* lines 734-744
b_wr_fix_first(m, y) ==
    \A n \in m.N, e \in m.E, f \in m.E : y = first_y(m) => m.B_WR[<<n, e, f, y>>] = 0

\* lines 746-756
k_rw_fix_first(m, y) ==
    \A n \in m.N, e \in m.E, f \in m.E : y = first_y(m) => m.K_RW[<<n, e, f, y>>] = 0

\* lines 758-768
k_w_fix_h2_ready(m, y) ==
    \A n \in m.N :
        ("G" \in m.E /\ m.h2_ready[<<n, "G">>] <= 0) =>
            m.K_W[<<n, "G", y>>] = m.cap_ww[<<n, "G", y>>]

\* lines 770-782
bil_a1(m, y) ==
    \A a \in m.A, e \in m.E :
        y # first_y(m) =>
            SumSet(m.E, [f \in m.E |-> m.K_RA[<<a, e, f, y>>]]) =
                SumSet(YPred(m, y), [y2 \in YPred(m, y) |-> m.K_A[<<a, e, y2>>]])

\* lines 784-796
bil_w1(m, y) ==
    \A n \in m.N, e \in m.E :
        y # first_y(m) =>
            SumSet(m.E, [f \in m.E |-> m.K_RW[<<n, e, f, y>>]]) =
                SumSet(YPred(m, y), [y2 \in YPred(m, y) |-> m.K_W[<<n, e, y2>>]])

\* lines 798-809
bil_a2(m, y) ==
    \A a \in m.A, e \in m.E, f \in m.E :
        y # first_y(m) => m.K_RA[<<a, e, f, y>>] <= m.B_AR[<<a, e, f, y>>] * m.bigM

\* lines 811-822
bil_w2(m, y) ==
    \A n \in m.N, e \in m.E, f \in m.E :
        y # first_y(m) => m.K_RW[<<n, e, f, y>>] <= m.B_WR[<<n, e, f, y>>] * m.bigM

\* every constraint of the block, over all the years
InvestmentFeasible(m) ==
    \A y \in Range(m.Y) :
        /\ k_a_init(m, y) /\ k_w_init(m, y) /\ ar_cap(m, y) /\ wr_cap(m, y)
        /\ a_lim(m, y) /\ a_opp1(m, y) /\ a_opp2(m, y) /\ k_bd_fix_is_bid(m, y)
        /\ \A y2 \in Range(m.Y) : bd_cost(m, y, y2)
        /\ bd_fix_is_bid(m, y) /\ bidir(m, y) /\ sos_a(m, y) /\ sos_w(m, y)
        /\ b_ar_fix_first(m, y) /\ k_ra_fix_first(m, y)
        /\ b_wr_fix_first(m, y) /\ k_rw_fix_first(m, y) /\ k_w_fix_h2_ready(m, y)
        /\ bil_a1(m, y) /\ bil_w1(m, y) /\ bil_a2(m, y) /\ bil_w2(m, y)

\* a slice s over the index set S becomes the entries of year y of a variable
AtYear(s, S, y) == [k \in {p \o <<y>> : p \in S} |-> s[SubSeq(k, 1, Len(k) - 1)]]

\* index sets of one year
IdxA(m) == {<<a>> : a \in m.A}

IdxAE(m) == {<<a, e>> : a \in m.A, e \in m.E}

IdxAEE(m) == {<<a, e, f>> : a \in m.A, e \in m.E, f \in m.E}

IdxNE(m) == {<<n, e>> : n \in m.N, e \in m.E}

IdxNEE(m) == {<<n, e, f>> : n \in m.N, e \in m.E, f \in m.E}

IdxAEH(m) == {<<a, e, h>> : a \in m.A, e \in m.E, h \in m.H}

\* the year the solver is assigning
CurrentYear == lp.Y[lp.yi]

\* lines 47-565: the model is built from the loaded inputs; no variable has a
\* value yet
BuildModel ==
    /\ lp.pc = "build"
    /\ Len(lp.Y) > 0
    /\ lp' = [lp EXCEPT !.pc = "repurposing", !.yi = 1]
    /\ UNCHANGED <<loadVars, call, run>>

\* the slices over the index set S the solver tries: every value from 0 to
\* the bound of the arc or node of the index
Slices(S, bound) == {s \in [S -> 0..MaxStock] : \A k \in S : s[k] <= bound[k[1]]}

\* the solver gives B_AR and B_WR of the current year values that satisfy
\* sos_a, sos_w and the first-year fixings
ChooseRepurposing ==
    /\ lp.pc = "repurposing"
    /\ \E b_ar \in [IdxAEE(lp) -> 0..1] :
        \E m1 \in {[lp EXCEPT !.B_AR = AtYear(b_ar, IdxAEE(lp), CurrentYear) @@ @]} :
            /\ sos_a(m1, CurrentYear)
            /\ b_ar_fix_first(m1, CurrentYear)
            /\ \E b_wr \in [IdxNEE(lp) -> 0..1] :
                \E m \in {[m1 EXCEPT !.B_WR = AtYear(b_wr, IdxNEE(lp), CurrentYear) @@ @,
                                     !.pc = "capacity"]} :
                    /\ sos_w(m, CurrentYear)
                    /\ b_wr_fix_first(m, CurrentYear)
                    /\ lp' = m
    /\ UNCHANGED <<loadVars, call, run>>

\* K_RA, K_A, K_RW, K_W, X_A of the current year
ChooseCapacity ==
    /\ lp.pc = "capacity"
    /\ \E k_ra \in Slices(IdxAEE(lp), lp.dom.K) :
        \E m1 \in {[lp EXCEPT !.K_RA = AtYear(k_ra, IdxAEE(lp), CurrentYear) @@ @]} :
            /\ k_ra_fix_first(m1, CurrentYear)
            /\ bil_a1(m1, CurrentYear)
            /\ bil_a2(m1, CurrentYear)
            /\ \E k_a \in Slices(IdxAE(lp), lp.dom.K) :
                \E m2 \in {[m1 EXCEPT !.K_A = AtYear(k_a, IdxAE(lp), CurrentYear) @@ @]} :
                    /\ k_a_init(m2, CurrentYear)
                    /\ ar_cap(m2, CurrentYear)
                    /\ \E k_rw \in Slices(IdxNEE(lp), lp.dom.K) :
                        \E m3 \in {[m2 EXCEPT !.K_RW =
                                        AtYear(k_rw, IdxNEE(lp), CurrentYear) @@ @]} :
                            /\ k_rw_fix_first(m3, CurrentYear)
                            /\ bil_w1(m3, CurrentYear)
                            /\ bil_w2(m3, CurrentYear)
                            /\ \E k_w \in Slices(IdxNE(lp), lp.dom.K) :
                                \E m4 \in {[m3 EXCEPT !.K_W =
                                                AtYear(k_w, IdxNE(lp), CurrentYear) @@ @]} :
                                    /\ k_w_init(m4, CurrentYear)
                                    /\ wr_cap(m4, CurrentYear)
                                    /\ k_w_fix_h2_ready(m4, CurrentYear)
                                    /\ \E x_a \in Slices(IdxAE(lp), lp.dom.X_A) :
                                        lp' = [m4 EXCEPT
                                                  !.X_A = AtYear(x_a, IdxAE(lp), CurrentYear) @@ @,
                                                  !.pc = "bidirectional"]
    /\ UNCHANGED <<loadVars, call, run>>

\* B_BD, BD, K_OPP, K_BD of the current year
ChooseBidirectional ==
    /\ lp.pc = "bidirectional"
    /\ \E b_bd \in Slices(IdxA(lp), lp.dom.B_BD), bd \in Slices(IdxA(lp), lp.dom.BD) :
        \E m1 \in {[lp EXCEPT !.B_BD = AtYear(b_bd, IdxA(lp), CurrentYear) @@ @,
                              !.BD = AtYear(bd, IdxA(lp), CurrentYear) @@ @]} :
            /\ bd_fix_is_bid(m1, CurrentYear)
            /\ bidir(m1, CurrentYear)
            /\ \E k_opp \in Slices(IdxAE(lp), lp.dom.K_OPP) :
                \E m2 \in {[m1 EXCEPT !.K_OPP =
                                AtYear(k_opp, IdxAE(lp), CurrentYear) @@ @]} :
                    /\ a_opp1(m2, CurrentYear)
                    /\ a_opp2(m2, CurrentYear)
                    /\ \E k_bd \in Slices(IdxAE(lp), lp.dom.K_BD) :
                        \E m \in {[m2 EXCEPT !.K_BD =
                                       AtYear(k_bd, IdxAE(lp), CurrentYear) @@ @,
                                             !.pc = "flows"]} :
                            /\ k_bd_fix_is_bid(m, CurrentYear)
                            /\ \A i \in 1..lp.yi : bd_cost(m, lp.Y[i], CurrentYear)
                            /\ lp' = m
    /\ UNCHANGED <<loadVars, call, run>>

\* F_A of the current year; then the next year, or the assignment is complete
ChooseFlows ==
    /\ lp.pc = "flows"
    /\ \E f_a \in Slices(IdxAEH(lp), lp.dom.F_A) :
        \E m \in {[lp EXCEPT !.F_A =
                        [k \in {<<i[1], i[2], CurrentYear, i[3]>> : i \in IdxAEH(lp)} |->
                            f_a[<<k[1], k[2], k[4]>>]] @@ @]} :
            /\ a_lim(m, CurrentYear)
            /\ lp' = IF lp.yi < Len(lp.Y)
                     THEN [m EXCEPT !.yi = @ + 1, !.pc = "repurposing"]
                     ELSE [m EXCEPT !.pc = "assigned"]
    /\ UNCHANGED <<loadVars, call, run>>

\* the solver returns the assignment as a feasible solution
SolverReturns ==
    /\ lp.pc = "assigned"
    /\ InvestmentFeasible(lp)
    /\ lp' = [lp EXCEPT !.pc = "solved"]
    /\ UNCHANGED <<loadVars, call, run>>

NextInvestment ==
    \/ BuildModel \/ ChooseRepurposing \/ ChooseCapacity \/ ChooseBidirectional
    \/ ChooseFlows \/ SolverReturns

\* ------------------------------------------------------------------------
\* model.py: build_base_model_with_cz, the demand block
\*
\* The block is stated for nodes without incident arc, storage capacity or
\* blending limit (a_s = a_e = 0, cap_we = cap_wi = 0, ub_bl = 0), where
\* a_lim, w_extr_cap, w_inj_cap, qb_fix_* and max_bl leave F_A, Q_E, Q_I and
\* Q_B no value but 0 in the node balance.
\* ------------------------------------------------------------------------

\* z_dmd when the penalty classes are empty (Python None)
None == "None"

\* build_c_z lines 80-83: the penalty classes, c_z["z"]
CzClasses(dat_o) == {r.indx1 : r \in Range(PenaltyRows(dat_o))} \ {""}

\* Python order of the penalty classes of the model
ClassOrder == <<"ZD", "ZD2">>

\* line 98
z_domain(dat_o) == SortedBy(ClassOrder, CzClasses(dat_o))

\* lines 16-28: the non-blank values of a list
CleanList(values) == {Strip(v) : v \in Range(values)} \ {"", "nan", "none", "null"}

\* lines 122-130: the Param c_z over Z x E, 0.0 where c_z_df has no row
model_c_z(c_z_df, Z, E) == [k \in Z \X E |-> Get(c_z_df, k, 0)]

\* line 114
z_dmd(zs) == IF "ZD2" \in Range(zs) THEN "ZD2" ELSE IF zs # <<>> THEN zs[1] ELSE None

\* lines 283-289
not_h(e) == IF Upper(e) = "H" THEN 0 ELSE 1

\* lines 269-275
is_h(e) == 1 - not_h(e)

\* the indices (n,e,y,h) of the model
IdxNEYH(m) == {<<n, e, y, h>> : n \in m.N, e \in m.E, y \in Range(m.Y), h \in m.H}

\* lines 530-543, without the blending terms
p_cap(m) ==
    \A k \in IdxNEYH(m) :
        IF m.cap_p[k] <= 0 THEN m.Q_P[k] = 0 ELSE m.Q_P[k] <= m.cap_p[k]

\* lines 544-557, without the blending terms
p_min(m) ==
    \A k \in IdxNEYH(m) : m.lb_p[k] > 0 => m.Q_P[k] >= m.lb_p[k]

\* lines 558-565
r_cap(m) ==
    \A k \in IdxNEYH(m) : m.Q_R[k] <= m.ub_r[<<k[1], k[2]>>]

\* lines 834-846
dmd_n3(m) ==
    \A k \in IdxNEYH(m) :
        (m.z_dmd # None /\ not_h(k[2]) = 1 /\ m.dmd[k] > 0) =>
            m.Q_S[k] = m.dmd[k] - m.ZDS[<<m.z_dmd>> \o k]

\* lines 847-859
qs_zero_nonh(m) ==
    \A k \in IdxNEYH(m) :
        (not_h(k[2]) = 1 /\ m.dmd[k] <= 0) => m.Q_S[k] = 0

\* lines 860-872
zd2_zero_nonh(m) ==
    \A k \in IdxNEYH(m) :
        (m.z_dmd # None /\ not_h(k[2]) = 1 /\ m.dmd[k] <= 0) =>
            m.ZDS[<<m.z_dmd>> \o k] = 0

\* lines 928-940: every node of the block lies in the one NUTS2 region
dmd_n2(m) ==
    \A e \in m.E, y \in Range(m.Y), h \in m.H :
        (is_h(e) = 1 /\ m.dmd2[<<e, y, h>>] > 0) =>
            SumSet(m.N, [n \in m.N |-> m.Q_S[<<n, e, y, h>>]]) =
                m.dmd2[<<e, y, h>>] - m.ZN2[<<e, y, h>>]

\* lines 943-957, at a node without arcs, storage and blending
mb_node(m) ==
    \A k \in IdxNEYH(m) : m.Q_P[k] + m.Q_R[k] = m.Q_S[k]

DemandFeasible(m) ==
    /\ p_cap(m) /\ p_min(m) /\ r_cap(m) /\ dmd_n3(m) /\ qs_zero_nonh(m)
    /\ zd2_zero_nonh(m) /\ dmd_n2(m) /\ mb_node(m)

\* lines 98-114: the penalty classes and the class of the demand slack
BuildDemandModel ==
    /\ lp.pc = "build_demand"
    /\ lp' = [lp EXCEPT !.Z = z_domain(lp.dat_o), !.z_dmd = z_dmd(z_domain(lp.dat_o)),
                        !.pc = "supply"]
    /\ UNCHANGED <<loadVars, call, run>>

\* the solver gives Q_P and Q_R values within p_cap, p_min and r_cap
ChooseSupply ==
    /\ lp.pc = "supply"
    /\ \E q_p \in [IdxNEYH(lp) -> 0..MaxStock], q_r \in [IdxNEYH(lp) -> 0..MaxStock] :
        \E m \in {[lp EXCEPT !.Q_P = q_p, !.Q_R = q_r, !.pc = "served"]} :
            /\ p_cap(m) /\ p_min(m) /\ r_cap(m)
            /\ lp' = m
    /\ UNCHANGED <<loadVars, call, run>>

\* Q_S, ZDS and ZN2 within the demand constraints and the node balance
ChooseServed ==
    /\ lp.pc = "served"
    /\ \E q_s \in [IdxNEYH(lp) -> 0..MaxStock] :
        \E m1 \in {[lp EXCEPT !.Q_S = q_s]} :
            /\ mb_node(m1)
            /\ qs_zero_nonh(m1)
            /\ \E zds \in [{<<z>> \o k : z \in Range(lp.Z), k \in IdxNEYH(lp)} -> 0..MaxStock],
                  zn2 \in [{<<e, y, h>> : e \in lp.E, y \in Range(lp.Y), h \in lp.H}
                              -> 0..MaxStock] :
                \E m \in {[m1 EXCEPT !.ZDS = zds, !.ZN2 = zn2, !.pc = "assigned_demand"]} :
                    /\ dmd_n3(m) /\ zd2_zero_nonh(m) /\ dmd_n2(m)
                    /\ lp' = m
    /\ UNCHANGED <<loadVars, call, run>>

\* the solver returns the assignment as a feasible solution
DemandSolverReturns ==
    /\ lp.pc = "assigned_demand"
    /\ DemandFeasible(lp)
    /\ lp' = [lp EXCEPT !.pc = "solved"]
    /\ UNCHANGED <<loadVars, call, run>>

NextDemand == BuildDemandModel \/ ChooseSupply \/ ChooseServed \/ DemandSolverReturns

\* ------------------------------------------------------------------------
\* solver.py, validate.py, solve_pipeline.py: one run of main
\*
\* run.exit is the exit code of the process once it has ended; an exception
\* that leaves main ends the process with the traceback and exit code 1.
\* ------------------------------------------------------------------------

\* main returns
ExitSuccess == 0

\* an exception leaves main
ExitUnhandled == 1

\* solver.py line 21
ExitUnavailable == 2

\* solve_pipeline.py line 457
ExitNotOptimal == 3

\* solve_pipeline.py line 459
ExitInfeasible == 4

\* solver.py line 33
ExitSolveFailed == 5

\* math.inf
Inf == 1000000

\* str(result.solver.termination_condition)
TerminationConditions ==
    {"optimal", "infeasible", "unbounded", "maxTimeLimit", "infeasibleOrUnbounded"}

\* a variant of _constraint_violation that looks at the upper bound only
ConstraintViolationUpperOnly(c) ==
    IF c.body = <<>> THEN Inf
    ELSE IF c.ub = <<>> THEN 0 ELSE Max(0, c.body[1] - c.ub[1])

\* validate.py lines 18-28: a constraint is [body, lb, ub], body <<>> when
\* _safe_value finds no value (nan), lb and ub <<>> when the bound is absent
ConstraintViolation(c) ==
    IF c.body = <<>> THEN Inf
    ELSE Max(IF c.lb = <<>> THEN 0 ELSE Max(0, c.lb[1] - c.body[1]),
             IF c.ub = <<>> THEN 0 ELSE Max(0, c.body[1] - c.ub[1]))

\* validate.py lines 31-61
ValidateConstraints(cs, tol) ==
    LET viols == [i \in DOMAIN cs |-> ConstraintViolation(cs[i])]
        violated == Cardinality({i \in DOMAIN cs : viols[i] > tol})
    IN  [total_constraints |-> Len(cs),
         violated_constraints |-> violated,
         max_violation |-> FoldSeq(Max, 0, viols),
         feasible_by_tolerance |-> violated = 0]

\* the process ends with the exit code
Exit(r, code) == [r EXCEPT !.pc = "exited", !.exit = <<code>>]

\* solve_pipeline.py lines 142-143: load_inputs and the model builder return
\* or raise
MainLoad ==
    /\ run.pc = "load"
    /\ \E ok \in BOOLEAN :
        run' = IF ok THEN [run EXCEPT !.pc = "create_solver"]
               ELSE Exit([run EXCEPT !.unhandled = TRUE], ExitUnhandled)
    /\ UNCHANGED <<loadVars, call, lp>>

\* solver.py lines 16-22
CreateSolver ==
    /\ run.pc = "create_solver"
    /\ run' = IF ~run.available
              THEN Exit([run EXCEPT !.printed = @ \cup {"solver not available"}],
                        ExitUnavailable)
              ELSE [run EXCEPT !.pc = "solve"]
    /\ UNCHANGED <<loadVars, call, lp>>

\* solver.py lines 25-33: solver.solve returns a result and leaves values on
\* the model, or raises
SolveModel ==
    /\ run.pc = "solve"
    /\ \/ run' = Exit([run EXCEPT !.raised = "primary",
                                   !.printed = @ \cup {"solver failed to run"}],
                       ExitSolveFailed)
       \/ \E term \in TerminationConditions, cs \in run.candidates :
           run' = [run EXCEPT !.term = term, !.constraints = cs, !.pc = "validate"]
    /\ UNCHANGED <<loadVars, call, lp>>

\* solve_pipeline.py lines 150-170
Validate ==
    /\ run.pc = "validate"
    /\ run' = [run EXCEPT !.is_optimal = (Lower(run.term) = "optimal"),
                          !.con_report = <<ValidateConstraints(run.constraints, run.tol)>>,
                          !.pc = "compare"]
    /\ UNCHANGED <<loadVars, call, lp>>

\* solve_pipeline.py lines 220-249: the baseline of comparison mode
Compare ==
    /\ run.pc = "compare"
    /\ \/ /\ ~run.compare
          /\ run' = [run EXCEPT !.pc = "print"]
       \/ /\ run.compare
          /\ \/ \* lines 223-224 raise
                run' = Exit([run EXCEPT !.unhandled = TRUE], ExitUnhandled)
             \/ \* line 225 raises
                run' = Exit([run EXCEPT !.raised = "baseline", !.unhandled = TRUE],
                            ExitUnhandled)
             \/ \E ref_term \in TerminationConditions :
                    run' = [run EXCEPT !.comparison =
                                           IF Lower(ref_term) = "optimal" THEN "metrics"
                                           ELSE "error",
                                       !.pc = "print"]
    /\ UNCHANGED <<loadVars, call, lp>>

\* solve_pipeline.py lines 251-459
PrintAndExit ==
    /\ run.pc = "print"
    /\ \/ \* lines 251-270: a result file cannot be written
          run' = Exit([run EXCEPT !.unhandled = TRUE], ExitUnhandled)
       \/ \E r \in {[run EXCEPT !.printed = @ \cup {"Solve Report", "Feasibility Check"}]} :
            run' = IF ~r.is_optimal THEN Exit(r, ExitNotOptimal)
                   ELSE IF ~r.con_report[1].feasible_by_tolerance
                        THEN Exit(r, ExitInfeasible)
                        ELSE Exit(r, ExitSuccess)
    /\ UNCHANGED <<loadVars, call, lp>>

NextMain == MainLoad \/ CreateSolver \/ SolveModel \/ Validate \/ Compare \/ PrintAndExit

\* ------------------------------------------------------------------------
\* Scenario files
\* ------------------------------------------------------------------------

ORow(param, indx1, indx2, value) ==
    [param |-> param, indx1 |-> indx1, indx2 |-> indx2, value |-> value]

\* coefficient rows of other.csv (units of 1e-5), exact under Pipe,Len,Std = 100
\* and YearStep = 5
CoefficientRows ==
    <<ORow("BFPipe", "", "", 100), ORow("BFPipe", "H", "", 200),
      ORow("BLPipe", "", "", 1000),
      ORow("BIPipe", "", "", 5000), ORow("Bidir", "Var", "", 500),
      ORow("Bidir", "Fix", "", 5000), ORow("RepurpArc", "", "", 500),
      ORow("RepurpArc", "Fix", "H", 5000), ORow("Penalty", "ZD", "G", 1000 * One)>>

\* the rows of the two required scalars; a value of <<>> leaves the row out
ScalarRows(pls, ys) ==
    (IF pls = <<>> THEN <<>> ELSE <<ORow("Pipe", "Len", "Std", pls[1])>>)
        \o (IF ys = <<>> THEN <<>> ELSE <<ORow("YearStep", "", "", ys[1])>>)

ValidOther == ScalarRows(<<100>>, <<5>>) \o CoefficientRows

ArcRow(a, start, end, f, len, is_bidir) ==
    [a |-> a, start |-> start, end |-> end, f |-> f, cap |-> 10, len |-> len,
     off |-> 0, cal_b |-> 0, cal_c |-> 0, cal_l |-> 0, cal_r |-> 0, cal_x |-> 0,
     bidir |-> is_bidir]

WideRow(n, f, y, mc, lb, v) ==
    [n |-> n, f |-> f, y |-> y, mc |-> mc, lb |-> lb, v |-> v]

StorRow(n, f) ==
    [n |-> n, f |-> f, w |-> HoursPerYear, x |-> 4, i |-> 2, cal_c |-> 0, cal_l |-> 2]

RegasRow(n, f, y) == [n |-> n, f |-> f, y |-> y, cal_c |-> <<2 * One>>, ub |-> <<7>>]

NodeRow(n) == [n |-> n, cn |-> "NO", nuts2 |-> "NO01", rgn |-> "NO01"]

\* a small well-formed version of every optional file
DefaultFile(name) ==
    CASE name = "timeseries" ->
            <<[y |-> 2025, h |-> 1, scaleup |-> 1], [y |-> 2030, h |-> 1, scaleup |-> 1]>>
      [] name = "nodes" -> <<NodeRow("N1"), NodeRow("N2")>>
      [] name = "arcs" -> <<ArcRow("A1", "N1", "N2", "G", 3, 0)>>
      [] name = "regasification" -> <<RegasRow("N1", "G", <<2025>>)>>
      [] name = "storage" -> <<StorRow("N1", "G")>>
      [] name = "consumption" ->
            <<WideRow("N1", "G", <<2025>>, <<>>, <<>>, (1 :> <<5>>))>>
      [] name = "production" ->
            <<WideRow("N1", "G", <<2025>>, <<3 * One>>, <<1>>, (1 :> <<9>>))>>

Directory(other, present, content) ==
    [name \in {"other"} \cup present |->
        IF name = "other" THEN other ELSE content[name]]

\* ------------------------------------------------------------------------
\* Scenarios of load_inputs
\* ------------------------------------------------------------------------

\* values tried for Pipe,Len,Std and YearStep: row absent, zero, negative, valid
PipeLenStdChoices == {<<>>, <<0>>, <<-100>>, <<100>>}

YearStepChoices == {<<>>, <<0>>, <<-5>>, <<5>>}

\* (A) any subset of the optional files, each in its default version, under
\*     every combination of the two required scalars
InitPresence ==
    \E present \in SUBSET OptionalFiles, pls \in PipeLenStdChoices, ys \in YearStepChoices :
        Fresh(Directory(ScalarRows(pls, ys) \o CoefficientRows, present,
                        [name \in OptionalFiles |-> DefaultFile(name)]),
              "load")

\* (B) every file present, nodes and fuel labels varied file by file
DomainFile(name, cn, cf, an, af, sn, sf, rn, rf, ry) ==
    CASE name = "consumption" -> <<WideRow(cn, cf, <<2025>>, <<>>, <<>>, (1 :> <<5>>))>>
      [] name = "arcs" -> <<ArcRow("A1", "N1", an, af, 3, 0)>>
      [] name = "storage" -> <<StorRow(sn, sf)>>
      [] name = "regasification" -> <<RegasRow(rn, rf, ry)>>
      [] OTHER -> DefaultFile(name)

InitDomains ==
    \E cn \in {"N1", "N3"}, cf \in {"G", "gas", "H2"}, an \in {"N2", "N4"},
       af \in {"G", "C"}, sn \in {"N1", "N3"}, sf \in {"H", "gas"},
       rn \in {"N1", "N2"}, rf \in {"G", "H2"}, ry \in {<<2025>>, <<2030>>} :
        Fresh(Directory(ValidOther, OptionalFiles,
                        [name \in OptionalFiles |->
                            DomainFile(name, cn, cf, an, af, sn, sf, rn, rf, ry)]),
              "load")

\* (C) years varied: the years of timeseries.csv, of production.csv (one row
\*     per year, marginal cost 1.0 * (year - 2000)) and of consumption.csv
MaxYearIdx == 3

YearUniverse == {2020 + 5 * i : i \in 0..MaxYearIdx}

YearFile(name, T, P, C) ==
    CASE name = "timeseries" ->
            [i \in 1..Cardinality(T) |-> [y |-> SortInts(T)[i], h |-> 1, scaleup |-> 1]]
      [] name = "production" ->
            [i \in 1..Cardinality(P) |->
                WideRow("N1", "G", <<SortInts(P)[i]>>, <<(SortInts(P)[i] - 2000) * One>>,
                        <<1>>, (1 :> <<9>>))]
      [] name = "consumption" ->
            [i \in 1..Cardinality(C) |->
                WideRow("N1", "G", <<SortInts(C)[i]>>, <<>>, <<>>, (1 :> <<5>>))]
      [] OTHER -> DefaultFile(name)

InitYears ==
    \E T \in SUBSET YearUniverse, P \in SUBSET YearUniverse,
       C \in {S \in SUBSET YearUniverse : Cardinality(S) <= 1} :
        Fresh(Directory(ValidOther, OptionalFiles,
                        [name \in OptionalFiles |-> YearFile(name, T, P, C)]),
              "load")

\* (D) the arcs table varied: up to MaxArcs arcs of one row each between N1 and
\*     N2, each forward or reversed, of fuel G or H, of length 0..MaxLen;
\*     the first arc is forward and may be flagged bidirectional
MaxArcs == 3

MaxLen == 2

ArcSpecs ==
    [o : {"fwd", "rev"}, f : {"G", "H"}, len : 0..MaxLen, bidir : {0, 1}]

ArcsTable(specs) ==
    [i \in DOMAIN specs |->
        ArcRow(ArcOrder[i],
               IF specs[i].o = "fwd" THEN "N1" ELSE "N2",
               IF specs[i].o = "fwd" THEN "N2" ELSE "N1",
               specs[i].f, specs[i].len, specs[i].bidir)]

ArcsFile(name, specs) ==
    CASE name = "arcs" -> ArcsTable(specs)
      [] name = "timeseries" -> <<[y |-> 2030, h |-> 1, scaleup |-> 1]>>
      [] OTHER -> DefaultFile(name)

InitArcs ==
    \E k \in 1..Min(MaxArcs, Len(ArcOrder)) :
        \E specs \in [1..k -> ArcSpecs] :
            /\ specs[1].o = "fwd"
            /\ \A i \in 2..k : specs[i].bidir = 0
            /\ Fresh(Directory(ValidOther, {"arcs", "timeseries"},
                               [name \in OptionalFiles |-> ArcsFile(name, specs)]),
                     "load")

\* (K) the arcs table with repeated arc ids: up to MaxArcRows rows of fuel G,
\*     each with an arc id of A1 or A2 and any start and end node
MaxArcRows == 2

EndpointSpecs == [a : {"A1", "A2"}, start : {"N1", "N2", "N3"}, end : {"N1", "N2", "N3"}]

EndpointsFile(name, specs) ==
    CASE name = "arcs" ->
            [i \in DOMAIN specs |->
                ArcRow(specs[i].a, specs[i].start, specs[i].end, "G", 1, 0)]
      [] name = "timeseries" -> <<[y |-> 2030, h |-> 1, scaleup |-> 1]>>
      [] OTHER -> DefaultFile(name)

InitEndpoints ==
    \E k \in 1..MaxArcRows :
        \E specs \in [1..k -> EndpointSpecs] :
            Fresh(Directory(ValidOther, {"arcs", "timeseries"},
                            [name \in OptionalFiles |-> EndpointsFile(name, specs)]),
                  "load")

\* (E) the production table varied: up to MaxProdRows rows of node N1 and
\*     fuel G, each with a year, an hour-1 capacity cell and an lb cell that
\*     may be missing, negative, zero or positive
MaxProdRows == 2

CapCells == {<<>>, <<-2>>, <<0>>, <<4>>}

LbCells == {<<>>, <<-1>>, <<2>>, <<9>>}

ProdSpecs == [y : {2025, 2030}, cap : CapCells, lb : LbCells]

ProdTable(specs) ==
    [i \in DOMAIN specs |->
        WideRow("N1", "G", <<specs[i].y>>,
                IF specs[i].lb = <<>> THEN <<>> ELSE <<3 * One>>,
                specs[i].lb, (1 :> specs[i].cap))]

ProdFile(name, specs) ==
    CASE name = "production" -> ProdTable(specs)
      [] OTHER -> DefaultFile(name)

InitProd ==
    \E k \in 1..MaxProdRows :
        \E specs \in [1..k -> ProdSpecs] :
            Fresh(Directory(ValidOther, {"arcs", "production"},
                            [name \in OptionalFiles |-> ProdFile(name, specs)]),
                  "load")

\* the tables of at most n rows taken from rows
TablesOf(rows, n) == UNION {[1..k -> rows] : k \in 0..n}

\* (F) regasification.csv varied: a node of nodes.csv or a new one, gas under
\*     two labels and hydrogen, year blank, 2025 or 2030, cal_c blank,
\*     negative or positive, ub negative or positive; the fuel label of
\*     consumption.csv varied as well
MaxRegasRows == 1

RegasSpecs ==
    [n : {"N1", "N3"}, f : {"G", "gas", "H"}, y : {<<>>, <<2025>>, <<2030>>},
     cal_c : {<<>>, <<-One>>, <<2 * One>>}, ub : {<<-3>>, <<7>>}]

RegasFile(name, rows, cf) ==
    CASE name = "regasification" -> rows
      [] name = "consumption" -> <<WideRow("N1", cf, <<2025>>, <<>>, <<>>, (1 :> <<5>>))>>
      [] OTHER -> DefaultFile(name)

InitRegas ==
    \E rows \in TablesOf(RegasSpecs, MaxRegasRows), cf \in {"G", "gas", "H"} :
        Fresh(Directory(ValidOther, OptionalFiles,
                        [name \in OptionalFiles |-> RegasFile(name, rows, cf)]),
              "load")

\* (L) the YearStep rows of other.csv varied: up to MaxYearStepRows rows, each
\*     with a blank or non-blank first index and a zero or positive value,
\*     after a valid Pipe,Len,Std row; one arc A1 from N1 to N2
MaxYearStepRows == 2

YearStepRowChoices == {ORow("YearStep", i, "", v) : i \in {"", "G"}, v \in {0, 5, 10}}

YearStepFile(name) ==
    CASE name = "timeseries" -> <<[y |-> 2030, h |-> 1, scaleup |-> 1]>>
      [] OTHER -> DefaultFile(name)

InitYearStep ==
    \E t \in TablesOf(YearStepRowChoices, MaxYearStepRows) :
        Fresh(Directory(ScalarRows(<<100>>, <<>>) \o t \o CoefficientRows,
                        {"arcs", "timeseries"},
                        [name \in OptionalFiles |-> YearStepFile(name)]),
              "load")

\* (M) the penalty rows of other.csv varied: up to MaxPenaltyDomainRows rows
\*     after the rows of ValidOther, each for class ZD or the global default,
\*     for fuel G or every fuel, zero or positive; consumption of fuel G or H
MaxPenaltyDomainRows == 2

PenaltyDomainRowChoices ==
    {ORow("Penalty", z, e, v) : z \in {"", "ZD"}, e \in {"", "G"}, v \in {0, 7}}

PenaltyDomainFile(name, cf) ==
    CASE name = "consumption" -> <<WideRow("N1", cf, <<2025>>, <<>>, <<>>, (1 :> <<5>>))>>
      [] OTHER -> DefaultFile(name)

InitPenaltyDomain ==
    \E t \in TablesOf(PenaltyDomainRowChoices, MaxPenaltyDomainRows), cf \in {"G", "H"} :
        Fresh(Directory(ValidOther \o t, OptionalFiles,
                        [name \in OptionalFiles |-> PenaltyDomainFile(name, cf)]),
              "load")

\* no call of load_inputs in progress
LoadIdle ==
    /\ dir = EmptyMap /\ pc = "idle" /\ dat = EmptyMap /\ time = NoTime
    /\ nodes = NoNodes /\ cons = NoCons /\ prod = NoProd /\ regas = NoRegas
    /\ n_values = <<>> /\ e_values = <<>> /\ final_y_values = <<>>
    /\ final_h_values = <<>> /\ arcs = <<>> /\ stor = NoStor
    /\ outcome = "running" /\ error = ""

\* ------------------------------------------------------------------------
\* Built models
\* ------------------------------------------------------------------------

\* the longest planning horizon, in years of the year set
MaxModelYears == 2

ModelYears(k) == [i \in 1..k |-> 2020 + 5 * i]

\* a model just before BuildModel: sets, parameters (the same every year),
\* the largest value tried for each variable, and no value assigned
NewModel(A, E, N, k, cap_a, cap_ww, is_bid, opp, bigM, h2_ready, dom) ==
    [pc |-> "build", yi |-> 0,
     A |-> A, E |-> E, N |-> N, H |-> {1}, Y |-> ModelYears(k),
     cap_a |-> [key \in {<<a, e, y>> : a \in A, e \in E, y \in Range(ModelYears(k))} |->
                   cap_a[<<key[1], key[2]>>]],
     cap_ww |-> [key \in {<<n, e, y>> : n \in N, e \in E, y \in Range(ModelYears(k))} |->
                    cap_ww[<<key[1], key[2]>>]],
     is_bid |-> is_bid, opp |-> opp, bigM |-> bigM, h2_ready |-> h2_ready,
     vola2 |-> [e \in E |-> 1], dom |-> dom,
     K_A |-> EmptyMap, X_A |-> EmptyMap, B_AR |-> EmptyMap, K_RA |-> EmptyMap,
     BD |-> EmptyMap, B_BD |-> EmptyMap, K_OPP |-> EmptyMap, K_BD |-> EmptyMap,
     F_A |-> EmptyMap, K_W |-> EmptyMap, B_WR |-> EmptyMap, K_RW |-> EmptyMap]

\* the largest value tried for a variable: b1 on arc A1 and node N1, b2 on
\* arc A2
Bounds(b1, b2) == ("A1" :> b1) @@ ("N1" :> b1) @@ ("A2" :> b2)

\* (G) one arc, one storage node, two fuels: repurposing between the fuels,
\*     expansion of 0 or 1; no opposite arc, so nothing bidirectional
InitRepurpose ==
    /\ \E k \in 1..MaxModelYears,
          cap_a \in [{<<"A1", "G">>, <<"A1", "H">>} -> 0..1],
          cap_g \in 0..1, bigM \in {0, 10}, h2 \in 0..1 :
           lp = NewModel({"A1"}, {"G", "H"}, {"N1"}, k, cap_a,
                         (<<"N1", "G">> :> cap_g) @@ (<<"N1", "H">> :> 0),
                         [a \in {"A1"} |-> 0], [p \in {<<"A1", "A1">>} |-> 0], bigM,
                         (<<"N1", "G">> :> h2) @@ (<<"N1", "H">> :> 0),
                         [K |-> Bounds(MaxStock, 0), X_A |-> Bounds(1, 0),
                          B_BD |-> Bounds(0, 0), BD |-> Bounds(0, 0),
                          K_OPP |-> Bounds(0, 0), K_BD |-> Bounds(0, 0),
                          F_A |-> Bounds(0, 0)])
    /\ LoadIdle /\ call = NoCall /\ run = NoRun

\* (H) two arcs of one fuel, opposite to each other or not, the first one
\*     already bidirectional or not: bidirectional investment, reverse
\*     capacity and flow on the first arc, the second one keeping its stock
\*     only; no expansion
InitBidir ==
    /\ \E k \in 1..MaxModelYears, cap1 \in 0..1, bid1 \in 0..1, o \in 0..1,
          bigM \in {0, 10} :
           lp = NewModel({"A1", "A2"}, {"G"}, {}, k,
                         (<<"A1", "G">> :> cap1) @@ (<<"A2", "G">> :> 1),
                         EmptyMap,
                         ("A1" :> bid1) @@ ("A2" :> 0),
                         [p \in {"A1", "A2"} \X {"A1", "A2"} |->
                             IF p[1] # p[2] THEN o ELSE 0],
                         bigM, EmptyMap,
                         [K |-> Bounds(MaxStock, MaxStock), X_A |-> Bounds(0, 0),
                          B_BD |-> Bounds(1, 0), BD |-> Bounds(BDOne, 0),
                          K_OPP |-> Bounds(1, 0), K_BD |-> Bounds(1, 0),
                          F_A |-> Bounds(1, 0)])
    /\ LoadIdle /\ call = NoCall /\ run = NoRun

\* (I) one node, gas and hydrogen, one year and one hour: demand negative,
\*     zero or positive, production capacity and lower bound, regasification
\*     bound, and the penalty rows of other.csv: none, a row with blank
\*     indices only, one class, two classes
DemandPenaltyTables ==
    {<<>>, <<ORow("Penalty", "", "", 7)>>, <<ORow("Penalty", "ZD", "G", 7)>>,
     <<ORow("Penalty", "ZD", "", 7), ORow("Penalty", "ZD2", "G", 3)>>}

InitDemand ==
    /\ \E t \in DemandPenaltyTables, dmd_g \in {-1, 0, 2}, dmd_h \in 0..1,
          cap_g \in {0, 2}, lb_g \in 0..1, ub_g \in 0..1 :
           lp = [pc |-> "build_demand", dat_o |-> t, Z |-> <<>>, z_dmd |-> None,
                 N |-> {"N1"}, E |-> {"G", "H"}, Y |-> ModelYears(1), H |-> {1},
                 dmd |-> (<<"N1", "G", 2025, 1>> :> dmd_g) @@ (<<"N1", "H", 2025, 1>> :> dmd_h),
                 dmd2 |-> (<<"G", 2025, 1>> :> dmd_g) @@ (<<"H", 2025, 1>> :> dmd_h),
                 cap_p |-> (<<"N1", "G", 2025, 1>> :> cap_g) @@ (<<"N1", "H", 2025, 1>> :> 1),
                 lb_p |-> (<<"N1", "G", 2025, 1>> :> Min(lb_g, cap_g))
                              @@ (<<"N1", "H", 2025, 1>> :> 0),
                 ub_r |-> (<<"N1", "G">> :> ub_g) @@ (<<"N1", "H">> :> 0),
                 Q_P |-> EmptyMap, Q_R |-> EmptyMap, Q_S |-> EmptyMap, ZDS |-> EmptyMap,
                 ZN2 |-> EmptyMap]
    /\ LoadIdle /\ call = NoCall /\ run = NoRun

\* (J) runs of main: solver available or not, comparison mode or not, the
\*     tolerance, and the constraints of the model with the values the
\*     solver may leave on them
MaxConstraints == 2

ConstraintKinds ==
    {[body |-> b, lb |-> bd[1], ub |-> bd[2]] :
        b \in {<<>>, <<0>>, <<2>>}, bd \in {<< <<1>>, <<>> >>, << <<>>, <<1>> >>, << <<1>>, <<1>> >>}}

InitMain ==
    /\ \E available \in BOOLEAN, compare \in BOOLEAN, tol \in 0..1 :
           run = [pc |-> "load", available |-> available, compare |-> compare, tol |-> tol,
                  candidates |-> TablesOf(ConstraintKinds, MaxConstraints),
                  raised |-> "none", term |-> None, is_optimal |-> FALSE,
                  constraints |-> <<>>, con_report |-> <<>>, comparison |-> "none",
                  printed |-> {}, unhandled |-> FALSE, exit |-> <<>>]
    /\ LoadIdle /\ call = NoCall /\ lp = NoLp

\* parameter tables of penalty rows: both spellings, blank and non-blank
\* indices, negative, zero and two positive values, and one other parameter
MaxPenaltyRows == 2

PenaltyValues == {-5, 0, 3, 7}

PenaltyRowChoices ==
    {ORow("Penalty", z, e, v) : z \in {"", "ZD"}, e \in {"", "G"}, v \in PenaltyValues}
        \cup {ORow("Penality", "ZD", "G", 7), ORow("BigM", "", "", 7)}

InitPenalty ==
    /\ \E t \in TablesOf(PenaltyRowChoices, MaxPenaltyRows),
          z \in {"ZD", "ZS"}, e \in {"G", "H"} :
           call = [pc |-> "penalty_ready", dat_o |-> t, z |-> z, e |-> e,
                   lookup |-> EmptyMap, result |-> 0]
    /\ LoadIdle
    /\ lp = NoLp /\ run = NoRun

\* parameter tables of scalar rows: two spellings of one parameter, another
\* parameter, indices that must be ignored, non-positive and positive values
MaxScalarRows == 2

ScalarValues == {-2000, 0, 3000, 5000}

ScalarRowChoices ==
    {ORow(p, i, "", v) : p \in {"DiscRate", "discrate", "YearStep"}, i \in {"", "G"},
                         v \in ScalarValues}

InitScalar ==
    /\ \E t \in TablesOf(ScalarRowChoices, MaxScalarRows),
          name \in {"DiscRate", "discrate", "YearStep", "BigM"} :
           call = [pc |-> "scalar_ready", dat_o |-> t, param_name |-> name, result |-> 0]
    /\ LoadIdle
    /\ lp = NoLp /\ run = NoRun

Init == InitPresence \/ InitDomains \/ InitYears \/ InitArcs \/ InitProd \/ InitRegas

Spec == Init /\ [][Next]_vars

\* load_inputs over other.csv tables with several YearStep rows
SpecYearStep == InitYearStep /\ [][Next]_vars

\* load_inputs over other.csv tables with several penalty rows
SpecPenaltyDomain == InitPenaltyDomain /\ [][Next]_vars

\* load_inputs over arcs tables with repeated arc ids
SpecEndpoints == InitEndpoints /\ [][Next]_vars

\* one specification per family of scenarios
SpecPresence == InitPresence /\ [][Next]_vars

SpecDomains == InitDomains /\ [][Next]_vars

SpecYears == InitYears /\ [][Next]_vars

SpecArcs == InitArcs /\ [][Next]_vars

SpecProd == InitProd /\ [][Next]_vars

SpecRegas == InitRegas /\ [][Next]_vars

SpecRepurpose == InitRepurpose /\ [][NextInvestment]_vars

SpecBidir == InitBidir /\ [][NextInvestment]_vars

SpecDemand == InitDemand /\ [][NextDemand]_vars

SpecMain == InitMain /\ [][NextMain]_vars

SpecPenalty == InitPenalty /\ [][NextPenalty]_vars

SpecScalar == InitScalar /\ [][NextScalar]_vars

\* ------------------------------------------------------------------------
\* The dictionary returned by load_inputs, and the vocabulary of the claims
\* ------------------------------------------------------------------------

Returned == pc = "done" /\ outcome = "returned"

Raised == pc = "done" /\ outcome = "raised"

\* lines 1045-1115: the returned dictionary (the entries the claims read)
Result ==
    [n_values |-> n_values, e_values |-> e_values, y_values |-> final_y_values,
     h_values |-> final_h_values,
     n_in_c |-> nodes.n_in_c, n_in_2 |-> nodes.n_in_2, n_in_r |-> nodes.n_in_r,
     yearstep |-> BuildYearstep(dat.other),
     c_z |-> BuildCZ(dat.other),
     a_values |-> arcs[1], a_s |-> arcs[2], a_e |-> arcs[3], opp |-> arcs[4],
     is_bid |-> arcs[5], opp_map |-> arcs[6], cap_a |-> arcs[7], c_a |-> arcs[8],
     c_ax |-> arcs[9], c_ab |-> arcs[10], c_ar |-> arcs[11], f_ar |-> arcs[12],
     f_ab |-> arcs[13], e_a |-> arcs[14],
     cap_p |-> prod.cap_p, c_p |-> prod.c_p, lb_p |-> prod.lb_p,
     c_lr |-> regas.c_lr, ub_r |-> regas.ub_r,
     cap_we |-> stor.cap_we, cap_wi |-> stor.cap_wi, cap_ww |-> stor.cap_ww,
     c_we |-> stor.c_we, e_w |-> stor.e_w,
     dmd |-> cons.dmd, scaleUp |-> time.scaleup]

\* other.csv defines a strictly positive Pipe,Len,Std and a strictly positive
\* YearStep
ScalarsValid ==
    /\ ArcParams(dir["other"]).pipe_len_std > 0
    /\ ArcParams(dir["other"]).year_step > 0

\* the years of the rows of a wide file that the extraction keeps
KeptYears(name) == {r.y[1] : r \in Range(KeptWideRows(LoadCsv(dir, name)))}

\* ------------------------------------------------------------------------
\* C1
\* ------------------------------------------------------------------------

\* C1: with a valid other.csv (positive Pipe,Len,Std and YearStep) and any
\* subset of the optional files, load_inputs returns the dictionary and does
\* not raise.  Refuted: without arcs.csv the arc extraction hands back 15
\* values where load_inputs unpacks 16.
C1_MissingOptionalNeverFatal ==
    (pc = "done" /\ ScalarsValid) => outcome = "returned"

\* ------------------------------------------------------------------------
\* C2
\* ------------------------------------------------------------------------

\* C2: when production.csv has cost rows for at least 3 distinct years
\* including 2030, then in the returned dictionary every (n,f) with a 2030
\* row has c_p(n,f,y) = c_p(n,f,2030) for every production year y after the
\* 2nd one, whatever the other files contain.  Refuted: the years of
\* production.csv never reach the year list the carry-forward runs over.
C2_CarryForward2030 ==
    Returned =>
        LET rows == KeptWideRows(LoadCsv(dir, "production"))
            years == SortInts(KeptYears("production"))
        IN  (Len(years) >= 3 /\ 2030 \in Range(years)) =>
                \A r \in Range(rows) :
                    r.y[1] = 2030 =>
                        \A i \in 3..Len(years) :
                            /\ <<Strip(r.n), Strip(r.f), years[i]>> \in DOMAIN Result.c_p
                            /\ Result.c_p[<<Strip(r.n), Strip(r.f), years[i]>>]
                                   = Result.c_p[<<Strip(r.n), Strip(r.f), 2030>>]

\* ------------------------------------------------------------------------
\* C3
\* ------------------------------------------------------------------------

\* C3: every year of timeseries.csv, of a kept consumption.csv row and of a
\* kept production.csv row is an element of the returned y_values.  Refuted:
\* the years of production.csv are never collected.
C3_YearDomainIsUnion ==
    Returned =>
        ({r.y : r \in Range(LoadCsv(dir, "timeseries"))}
             \cup KeptYears("consumption") \cup KeptYears("production"))
            \subseteq Range(Result.y_values)

\* ------------------------------------------------------------------------
\* C4
\* ------------------------------------------------------------------------

\* C4: in the returned dictionary, for every arc a of a_values, every fuel f
\* of the final e_values and every year y of the final y_values, cap_a, c_a,
\* c_ax and c_ab contain (a,f,y), f_ab contains (a,y), e_a contains (a,f),
\* and c_ar and f_ar contain (a,e,f,y) for every ordered fuel pair (e,f).
C4_ArcCoverage ==
    Returned =>
        \A a \in Range(Result.a_values), f \in Range(Result.e_values),
           y \in Range(Result.y_values) :
            /\ <<a, f, y>> \in DOMAIN Result.cap_a
            /\ <<a, f, y>> \in DOMAIN Result.c_a
            /\ <<a, f, y>> \in DOMAIN Result.c_ax
            /\ <<a, f, y>> \in DOMAIN Result.c_ab
            /\ <<a, y>> \in DOMAIN Result.f_ab
            /\ <<a, f>> \in DOMAIN Result.e_a
            /\ \A e \in Range(Result.e_values) :
                   /\ <<a, e, f, y>> \in DOMAIN Result.c_ar
                   /\ <<a, e, f, y>> \in DOMAIN Result.f_ar

\* C4 witness: a returned dictionary with a year, and an arc and a fuel of
\* the final domain such that no row of arcs.csv gives the arc that fuel
C4_Witness ==
    /\ Returned
    /\ Result.y_values # <<>>
    /\ \E a \in Range(Result.a_values), f \in Range(Result.e_values) :
           \A r \in Range(ArcWork(dat.arcs)) : ~(r.a = a /\ r.f = f)

\* ------------------------------------------------------------------------
\* C5
\* ------------------------------------------------------------------------

\* C5: in the returned dictionary, for every node n of the final n_values
\* (nodes first seen in the regasification, arcs or storage files included)
\* and every fuel e of the final e_values (fuels first seen in arcs
\* included), c_lr and ub_r contain (n,e).  Refuted: the backfill runs once,
\* before the arcs and the storage widen the domains.
C5_RegasCoverage ==
    Returned =>
        \A n \in Range(Result.n_values), e \in Range(Result.e_values) :
            /\ <<n, e>> \in DOMAIN Result.c_lr
            /\ <<n, e>> \in DOMAIN Result.ub_r

\* ------------------------------------------------------------------------
\* C6
\* ------------------------------------------------------------------------

\* C6: in the returned dictionary, for every node n of the final n_values,
\* every fuel label e exactly as it appears in the final e_values and every
\* year y of the final y_values, cap_we, cap_wi and cap_ww contain (n,e,y),
\* and c_we and e_w contain (n,e).  Refuted: the storage maps are keyed by
\* the canonical label, e_values keeps raw labels.
C6_StorageCoverage ==
    Returned =>
        \A n \in Range(Result.n_values), e \in Range(Result.e_values) :
            /\ <<n, e>> \in DOMAIN Result.c_we
            /\ <<n, e>> \in DOMAIN Result.e_w
            /\ \A y \in Range(Result.y_values) :
                   /\ <<n, e, y>> \in DOMAIN Result.cap_we
                   /\ <<n, e, y>> \in DOMAIN Result.cap_wi
                   /\ <<n, e, y>> \in DOMAIN Result.cap_ww

\* ------------------------------------------------------------------------
\* C7
\* ------------------------------------------------------------------------

\* the arc maps before the propagation: each arc's own values
OwnArcMaps ==
    ArcOwnMaps(ArcWork(dat.arcs), ArcParams(dat.other), Result.a_values,
               Result.e_values, Result.y_values,
               BuildVola2(dat.other, Range(Result.e_values)), BuildLossMax(dat.other))

\* ai and ao are opposite, ai's own c_a is positive and ao's own c_a is
\* approximately zero or not configured
OwnCostOneSided(ai, ao, f, y) ==
    /\ Result.opp[<<ai, ao>>] = 1
    /\ Get(OwnArcMaps.c_a, <<ai, f, y>>, 0) > 0
    /\ Get(OwnArcMaps.c_a, <<ao, f, y>>, 0) <= Tol

\* the returned values of ao equal those of ai
SameAsForward(ai, ao, f, y) ==
    /\ Result.c_a[<<ao, f, y>>] = Result.c_a[<<ai, f, y>>]
    /\ Result.c_ax[<<ao, f, y>>] = Result.c_ax[<<ai, f, y>>]
    /\ Result.c_ab[<<ao, f, y>>] = Result.c_ab[<<ai, f, y>>]
    /\ Result.f_ab[<<ao, y>>] = Result.f_ab[<<ai, y>>]
    /\ Result.e_a[<<ao, f>>] = Result.e_a[<<ai, f>>]
    /\ Result.is_bid[ao] = Result.is_bid[ai]

\* ai is the only opposite of ao and ao is the only opposite of ai
OnlyPair(ai, ao) ==
    \A b \in Range(Result.a_values) :
        /\ Result.opp[<<ai, b>>] = 1 => b = ao
        /\ Result.opp[<<b, ao>>] = 1 => b = ai

C8_SelfRepurposingZero ==
    Returned =>
        \A a \in Range(Result.a_values), e \in Range(Result.e_values),
           y \in Range(Result.y_values) :
            /\ Result.c_ar[<<a, e, e, y>>] = 0
            /\ Result.f_ar[<<a, e, e, y>>] = 0

\* C8 witness: a returned dictionary with an arc whose own f_ar(a,e,e,y),
\* from the RepurpArc FIX row, is positive before the diagonal is zeroed
C8_Witness ==
    /\ Returned
    /\ \E a \in Range(Result.a_values), e \in Range(Result.e_values),
          y \in Range(Result.y_values) :
           OwnArcMaps.f_ar[<<a, e, e, y>>] > 0

\* ------------------------------------------------------------------------
\* C9
\* ------------------------------------------------------------------------

\* production extraction has run
ProductionExtracted == pc \notin {"load", "domains"}

\* C9: for every production cell (n,e,y,h) produced by the extraction,
\* lb_p(n,e,y,h) <= cap_p(n,e,y,h), for any input rows; lb_p and cap_p have
\* exactly the same key set.
C9_LbAtMostCap ==
    ProductionExtracted =>
        /\ DOMAIN prod.lb_p = DOMAIN prod.cap_p
        /\ \A k \in DOMAIN prod.cap_p : prod.lb_p[k] <= prod.cap_p[k]

\* C9 witness: the extraction has run on a table whose last row of some cell
\* asks for an lb above its capacity, with an earlier row for the same cell
C9_Witness ==
    /\ ProductionExtracted
    /\ LET rows == dat.production
       IN  \E i \in DOMAIN rows, j \in DOMAIN rows :
               /\ i < j
               /\ rows[i].y = rows[j].y
               /\ NumOrZero(rows[j].lb) > NumOrZero(rows[j].v[1])
               /\ NumOrZero(rows[j].v[1]) <= 0
               /\ <<"N1", "G", rows[j].y[1], 1>> \in DOMAIN prod.cap_p

\* ------------------------------------------------------------------------
\* C10
\* ------------------------------------------------------------------------

\* C10: load_inputs raises, and returns no dictionary, whenever other.csv
\* does not define a strictly positive Pipe,Len,Std or does not define a
\* strictly positive YearStep, whichever optional files are present.
C10_InvalidScalarsRaise ==
    (pc = "done" /\ ~ScalarsValid) => outcome = "raised"

\* C10 witness: load_inputs has ended on the YearStep error of the arc
\* extraction, with arcs.csv present and a negative YearStep
C10_Witness ==
    /\ Raised
    /\ "arcs" \in DOMAIN dir
    /\ ArcParams(dir["other"]).year_step < 0
    /\ error = "other.csv must define YearStep with a positive value for arc investment formulas."

\* ------------------------------------------------------------------------
\* C11 - C12: param_table
\* ------------------------------------------------------------------------

PenaltyReturned == call.pc = "penalty"

\* lookup(z, e) of the penalty table: the value of the last penalty row with
\* these indices, 0 when there is none
Lookup(z, e) == Get(call.lookup, <<z, e>>, 0)

\* C11: penalty_value returns the first strictly positive value among
\* lookup(z,e), lookup(z,""), lookup("","") in that order, and exactly 0 when
\* none of the three is strictly positive.
C11_PenaltyFallbackChain ==
    PenaltyReturned =>
        call.result =
            IF Lookup(call.z, call.e) > 0 THEN Lookup(call.z, call.e)
            ELSE IF Lookup(call.z, "") > 0 THEN Lookup(call.z, "")
            ELSE IF Lookup("", "") > 0 THEN Lookup("", "")
            ELSE 0

\* the rows of the table whose parameter is the asked one, whatever the case
\* and the indices, and whose value is strictly positive
PositiveRowsOf(name) ==
    {i \in DOMAIN call.dat_o :
        /\ Lower(call.dat_o[i].param) = Lower(name)
        /\ call.dat_o[i].value > 0}

FirstPositiveOr(name, default) ==
    IF PositiveRowsOf(name) = {} THEN default
    ELSE call.dat_o[CHOOSE i \in PositiveRowsOf(name) :
                        \A j \in PositiveRowsOf(name) : i <= j].value

\* C12: build_scalar_param returns the value of the first row in table order
\* whose param matches case-insensitively (indices ignored) and whose value
\* is strictly positive, 0 when there is none; build_disc_rate returns 0.02
\* in that case.
C12_ScalarResolution ==
    /\ call.pc = "scalar" => call.result = FirstPositiveOr(call.param_name, 0)
    /\ call.pc = "disc_rate" => call.result = FirstPositiveOr("discrate", DefaultDiscRate)

\* a table where the first positive row of the parameter is not the last one
\* and follows a non-positive one with another spelling, and a table
\* without a positive discount rate
C12_Witness ==
    \/ /\ call.pc = "scalar"
       /\ Cardinality(PositiveRowsOf(call.param_name)) = 2
       /\ call.dat_o[1].value # call.dat_o[2].value
       /\ call.dat_o[1].param # call.dat_o[2].param
       /\ call.dat_o[1].indx1 # ""
       /\ call.result = call.dat_o[1].value
    \/ /\ call.pc = "disc_rate"
       /\ Len(call.dat_o) = 2
       /\ call.dat_o[1].param = "DiscRate"
       /\ call.dat_o[1].value < 0
       /\ call.result = DefaultDiscRate

\* ------------------------------------------------------------------------
\* C13
\* ------------------------------------------------------------------------

\* _extract_regas_data has returned and nothing has widened its domains yet:
\* N is nodes.n_values and E is e_values
RegasExtracted == pc = "arcs"

\* the rows of regasification.csv for (n,e) with a node, a fuel and the
\* year 2025 (a blank year counts as 2025)
ValidRegasRows(n, e) ==
    {i \in DOMAIN dat.regasification :
        LET r == dat.regasification[i]
        IN  /\ Strip(r.n) = n
            /\ NormalizeFuelLabel(r.f) = NormalizeFuelLabel(e)
            /\ (r.y = <<>> \/ r.y = <<RegasYear>>)}

LastValidRegasRow(n, e) ==
    dat.regasification[CHOOSE i \in ValidRegasRows(n, e) :
                           \A j \in ValidRegasRows(n, e) : j <= i]

\* C13: every (n,e) of N x E gets c_lr = 9999 when e is not gas-labeled,
\* c_lr = 1 when e is gas-labeled without a valid 2025 row for (n,e),
\* otherwise the row's cal_c (1 when cal_c <= 0 or blank); ub_r is 0 without
\* a 2025 row and otherwise max(0, ub); hence c_lr > 0 and ub_r >= 0.
C13_RegasValueRule ==
    RegasExtracted =>
        \A n \in Range(nodes.n_values), e \in Range(e_values) :
            /\ <<n, e>> \in DOMAIN regas.c_lr
            /\ <<n, e>> \in DOMAIN regas.ub_r
            /\ regas.c_lr[<<n, e>>] =
                   IF NormalizeFuelLabel(e) # "G" THEN NonGasCost
                   ELSE IF ValidRegasRows(n, e) = {} THEN One
                   ELSE IF NumOrZero(LastValidRegasRow(n, e).cal_c) <= 0 THEN One
                   ELSE LastValidRegasRow(n, e).cal_c[1]
            /\ regas.ub_r[<<n, e>>] =
                   IF ValidRegasRows(n, e) = {} THEN 0
                   ELSE Max(0, NumOrZero(LastValidRegasRow(n, e).ub))
            /\ regas.c_lr[<<n, e>>] > 0
            /\ regas.ub_r[<<n, e>>] >= 0

\* ------------------------------------------------------------------------
\* C14
\* ------------------------------------------------------------------------

Canonical(e) == NormalizeFuelLabel(e) = e

\* C14: every fuel label of the final e_values, and every fuel component of
\* a key of dmd, dmd2, cap_p, c_p and lb_p, is a fixed point of the synonym
\* canonicalization, whichever input file the label came from.
C14_FuelLabelsCanonical ==
    Returned =>
        /\ \A e \in Range(Result.e_values) : Canonical(e)
        /\ \A k \in DOMAIN Result.dmd : Canonical(k[2])
        /\ \A k \in DOMAIN cons.dmd2 : Canonical(k[2])
        /\ \A k \in DOMAIN Result.cap_p : Canonical(k[2])
        /\ \A k \in DOMAIN Result.c_p : Canonical(k[2])
        /\ \A k \in DOMAIN Result.lb_p : Canonical(k[2])

\* ------------------------------------------------------------------------
\* C15 - C16: first year and repurposing
\* ------------------------------------------------------------------------

\* the solver has returned a feasible solution of the built model
Solved == lp.pc = "solved"

LaterYears == Range(lp.Y) \ {first_y(lp)}

\* C15: in every feasible solution of a model with a non-empty year set, at
\* the first year Y[0], K_A(a,e,Y[0]) = cap_a(a,e,Y[0]),
\* K_W(n,e,Y[0]) = cap_ww(n,e,Y[0]) and B_AR, K_RA, B_WR, K_RW are all 0.
C15_FirstYearFixity ==
    Solved =>
        /\ \A a \in lp.A, e \in lp.E :
               /\ lp.K_A[<<a, e, lp.Y[1]>>] = lp.cap_a[<<a, e, lp.Y[1]>>]
               /\ \A f \in lp.E : /\ lp.B_AR[<<a, e, f, lp.Y[1]>>] = 0
                                  /\ lp.K_RA[<<a, e, f, lp.Y[1]>>] = 0
        /\ \A n \in lp.N, e \in lp.E :
               /\ lp.K_W[<<n, e, lp.Y[1]>>] = lp.cap_ww[<<n, e, lp.Y[1]>>]
               /\ \A f \in lp.E : /\ lp.B_WR[<<n, e, f, lp.Y[1]>>] = 0
                                  /\ lp.K_RW[<<n, e, f, lp.Y[1]>>] = 0

\* a solution over two years with a positive arc and storage capacity in
\* the first year, repurposed to the other fuel in the second
C15_Witness ==
    /\ Solved
    /\ Len(lp.Y) >= 2
    /\ lp.K_A[<<"A1", "G", lp.Y[1]>>] > 0
    /\ lp.K_W[<<"N1", "G", lp.Y[1]>>] > 0
    /\ lp.K_RA[<<"A1", "G", "H", lp.Y[2]>>] > 0
    /\ lp.K_RW[<<"N1", "G", "H", lp.Y[2]>>] > 0

\* C16: in every feasible solution, for every year after the first, every
\* arc a and fuel e, exactly one destination fuel f (possibly e) has
\* B_AR(a,e,f,y) = 1 and all others 0; the same for B_WR(n,e,f,y).
C16_OneHotRepurposing ==
    Solved =>
        \A y \in LaterYears, e \in lp.E :
            /\ \A a \in lp.A :
                   \E f \in lp.E :
                       /\ lp.B_AR[<<a, e, f, y>>] = 1
                       /\ \A g \in lp.E \ {f} : lp.B_AR[<<a, e, g, y>>] = 0
            /\ \A n \in lp.N :
                   \E f \in lp.E :
                       /\ lp.B_WR[<<n, e, f, y>>] = 1
                       /\ \A g \in lp.E \ {f} : lp.B_WR[<<n, e, g, y>>] = 0

\* a solution where gas stays gas on the arc while hydrogen is repurposed,
\* and the storage of each fuel goes to the other fuel
C16_Witness ==
    /\ Solved
    /\ Len(lp.Y) >= 2
    /\ lp.B_AR[<<"A1", "G", "G", lp.Y[2]>>] = 1
    /\ lp.B_AR[<<"A1", "H", "G", lp.Y[2]>>] = 1
    /\ lp.B_WR[<<"N1", "G", "H", lp.Y[2]>>] = 1
    /\ lp.B_WR[<<"N1", "H", "G", lp.Y[2]>>] = 1

\* ------------------------------------------------------------------------
\* C17
\* ------------------------------------------------------------------------

\* the demand slack of (n,e,y,h): ZDS of the class z_dmd, nothing when the
\* model has no penalty class
DemandSlack(k) == IF lp.z_dmd = None THEN 0 ELSE lp.ZDS[<<lp.z_dmd>> \o k]

\* C17: in every feasible solution, for every node n, non-hydrogen fuel e,
\* year y and hour h: if dmd > 0 then Q_S plus the demand slack equals dmd
\* (so Q_S never exceeds demand), and if dmd <= 0 then Q_S = 0 and the
\* demand slack is 0, whatever penalty rows other.csv contains.
C17_NonHydrogenDemandService ==
    Solved =>
        \A k \in IdxNEYH(lp) :
            not_h(k[2]) = 1 =>
                IF lp.dmd[k] > 0
                THEN /\ lp.Q_S[k] + DemandSlack(k) = lp.dmd[k]
                     /\ lp.Q_S[k] <= lp.dmd[k]
                ELSE /\ lp.Q_S[k] = 0
                     /\ DemandSlack(k) = 0

\* ------------------------------------------------------------------------
\* C18
\* ------------------------------------------------------------------------

Ended == run.pc = "exited"

\* a constraint of the solved model violated beyond the tolerance
ViolatedBeyondTol(c) ==
    \/ c.body = <<>>
    \/ c.lb # <<>> /\ c.lb[1] - c.body[1] > run.tol
    \/ c.ub # <<>> /\ c.body[1] - c.ub[1] > run.tol

SomeViolation == \E i \in DOMAIN run.constraints : ViolatedBeyondTol(run.constraints[i])

\* C18: a run ends with exit code 0 only if the solver was available, the
\* solve call did not raise, the termination condition is optimal and no
\* constraint is violated beyond the tolerance; solver unavailable,
\* solve-time failure, non-optimal termination and constraint violation
\* each end the run with a non-zero exit code; and whenever the solver has
\* returned a termination condition, the constraint-violation report is
\* computed before the run ends.
C18_ExitCodeContract ==
    Ended =>
        /\ run.exit = <<0>> =>
               /\ run.available
               /\ run.raised = "none"
               /\ run.term = "optimal"
               /\ ~SomeViolation
        /\ ~run.available => run.exit # <<0>>
        /\ run.raised # "none" => run.exit # <<0>>
        /\ (run.term # None /\ run.term # "optimal") => run.exit # <<0>>
        /\ (run.term # None /\ SomeViolation) => run.exit # <<0>>
        /\ run.term # None =>
               /\ run.con_report # <<>>
               /\ run.con_report[1].feasible_by_tolerance = ~SomeViolation

\* C18 witness: a run in comparison mode ends with exit code 0 on a model
\* with a constraint that has both bounds and a body off the bound by
\* exactly the tolerance
C18_Witness ==
    /\ Ended /\ run.exit = <<0>> /\ run.compare /\ run.tol = 1
    /\ \E i \in DOMAIN run.constraints :
           /\ run.constraints[i].lb # <<>> /\ run.constraints[i].ub # <<>>
           /\ run.constraints[i].body = <<2>>

\* ------------------------------------------------------------------------
\* C19
\* ------------------------------------------------------------------------

\* C19: whenever a solver call of the run raised, in the primary solve or in
\* the baseline solve of comparison mode, the run ends as a reported
\* failure with the exit code of a solve failure, distinct from every other
\* exit code, and the exception does not leave main unhandled.
C19_SolverExceptionsReported ==
    (Ended /\ run.raised # "none") =>
        /\ ~run.unhandled
        /\ "solver failed to run" \in run.printed
        /\ run.exit = <<ExitSolveFailed>>

\* ------------------------------------------------------------------------
\* C20
\* ------------------------------------------------------------------------

\* the years of the model at or before y
YearsUpTo(y) == {y2 \in Range(lp.Y) : y_pos(lp, y2) <= y_pos(lp, y)}

\* C20: in every feasible solution, for every arc a with is_bid(a) = 0, fuel e
\* and year y: K_OPP(a,e,y) > 0, and hence any flow above K_A(a,e,y) (in
\* arc-volume units), implies BD(a,y) > 0, which implies B_BD(a,y2) = 1 for
\* some year y2 at or before y; in particular BD(a,Y[0]) <= B_BD(a,Y[0]).
C20_ReverseFlowNeedsInvestment ==
    Solved =>
        \A a \in lp.A :
            lp.is_bid[a] = 0 =>
                /\ \A y \in Range(lp.Y) :
                       /\ \A e \in lp.E :
                              /\ lp.K_OPP[<<a, e, y>>] > 0 => lp.BD[<<a, y>>] > 0
                              /\ \A h \in lp.H :
                                     lp.F_A[<<a, e, y, h>>] * lp.vola2[e] > lp.K_A[<<a, e, y>>]
                                         => lp.BD[<<a, y>>] > 0
                       /\ lp.BD[<<a, y>>] > 0 =>
                              \E y2 \in YearsUpTo(y) : lp.B_BD[<<a, y2>>] = 1
                /\ lp.BD[<<a, lp.Y[1]>>] <= lp.B_BD[<<a, lp.Y[1]>>] * BDOne

\* a solution where the arc has no capacity of its own, invests in the first
\* year, and in the second year, without a new investment and with a
\* fractional bidirectional state, carries a flow on reverse capacity
C20_Witness ==
    /\ Solved
    /\ Len(lp.Y) >= 2
    /\ lp.is_bid["A1"] = 0
    /\ lp.B_BD[<<"A1", lp.Y[1]>>] = 1
    /\ lp.B_BD[<<"A1", lp.Y[2]>>] = 0
    /\ lp.BD[<<"A1", lp.Y[2]>>] \in 1..(BDOne - 1)
    /\ lp.K_A[<<"A1", "G", lp.Y[2]>>] = 0
    /\ lp.K_OPP[<<"A1", "G", lp.Y[2]>>] > 0
    /\ lp.F_A[<<"A1", "G", lp.Y[2], 1>>] > 0

\* ------------------------------------------------------------------------
\* C21
\* ------------------------------------------------------------------------

\* the year before y in the ordered years of the model
PrevYear(y) == lp.Y[y_pos(lp, y) - 1]

\* C21: in every feasible solution, for every arc a, fuel e and year y after
\* the first, the whole prior-year stock K_A(a,e,y-1) goes to the one
\* destination f with B_AR(a,e,f,y) = 1 and K_RA is 0 for every other
\* destination; the same for storage with K_RW, B_WR, K_W.  Consequently no
\* feasible solution has a prior-year stock above bigM.
C21_WholeStockRepurposing ==
    Solved =>
        \A y \in LaterYears, e \in lp.E :
            /\ \A a \in lp.A :
                   /\ \A f \in lp.E :
                          lp.K_RA[<<a, e, f, y>>] =
                              IF lp.B_AR[<<a, e, f, y>>] = 1
                              THEN lp.K_A[<<a, e, PrevYear(y)>>] ELSE 0
                   /\ lp.K_A[<<a, e, PrevYear(y)>>] <= lp.bigM
            /\ \A n \in lp.N :
                   /\ \A f \in lp.E :
                          lp.K_RW[<<n, e, f, y>>] =
                              IF lp.B_WR[<<n, e, f, y>>] = 1
                              THEN lp.K_W[<<n, e, PrevYear(y)>>] ELSE 0
                   /\ lp.K_W[<<n, e, PrevYear(y)>>] <= lp.bigM

\* a solution where the whole gas stock of the arc goes to hydrogen while
\* the hydrogen stock stays hydrogen
C21_Witness ==
    /\ Solved
    /\ Len(lp.Y) >= 2
    /\ lp.K_A[<<"A1", "G", lp.Y[1]>>] > 0
    /\ lp.K_A[<<"A1", "H", lp.Y[1]>>] > 0
    /\ lp.B_AR[<<"A1", "G", "H", lp.Y[2]>>] = 1
    /\ lp.B_AR[<<"A1", "H", "H", lp.Y[2]>>] = 1
    /\ lp.K_A[<<"A1", "H", lp.Y[2]>>] >= 2

\* ------------------------------------------------------------------------
\* C22
\* ------------------------------------------------------------------------

\* the sum over the fuels of a variable of arc or node k in year y
OverFuels(v, k, y) == SumSet(lp.E, [e \in lp.E |-> v[<<k, e, y>>]])

\* C22: in every feasible solution, for every arc a and year y after the
\* first, the sum over fuels of K_A(a,e,y) equals the sum over fuels of
\* K_A(a,e,y-1) plus the sum over fuels of X_A(a,e,y-1); for every node n
\* the sum over fuels of K_W(n,e,y) equals that of year y-1, hence the sum
\* of cap_ww(n,e,Y[0]) in every year.
C22_StockConservation ==
    Solved =>
        /\ \A y \in LaterYears :
               /\ \A a \in lp.A :
                      OverFuels(lp.K_A, a, y) =
                          OverFuels(lp.K_A, a, PrevYear(y)) + OverFuels(lp.X_A, a, PrevYear(y))
               /\ \A n \in lp.N :
                      OverFuels(lp.K_W, n, y) = OverFuels(lp.K_W, n, PrevYear(y))
        /\ \A y \in Range(lp.Y), n \in lp.N :
               OverFuels(lp.K_W, n, y) = OverFuels(lp.cap_ww, n, lp.Y[1])

\* a solution with an expansion in the first year and gas capacity
\* repurposed to hydrogen in the second
C22_Witness ==
    /\ Solved
    /\ Len(lp.Y) >= 2
    /\ lp.X_A[<<"A1", "G", lp.Y[1]>>] = 1
    /\ lp.K_RA[<<"A1", "G", "H", lp.Y[2]>>] > 0
    /\ lp.K_RW[<<"N1", "G", "H", lp.Y[2]>>] > 0

\* ------------------------------------------------------------------------
\* C29
\* ------------------------------------------------------------------------

\* C29: in every feasible solution, for every arc a with is_bid(a) = 0, fuel
\* e and year y with B_BD(a,y) = 1, K_BD(a,e,y) >= K_OPP(a,e,y2) for every
\* year y2 at or after y; for every arc with is_bid(a) = 1, BD(a,y) = 1 and
\* K_BD(a,e,y) = 0 in every year.
C29_BidirCostVolume ==
    Solved =>
        \A a \in lp.A, y \in Range(lp.Y) :
            IF lp.is_bid[a] = 1
            THEN /\ lp.BD[<<a, y>>] = BDOne
                 /\ \A e \in lp.E : lp.K_BD[<<a, e, y>>] = 0
            ELSE lp.B_BD[<<a, y>>] = 1 =>
                     \A e \in lp.E, y2 \in Range(lp.Y) :
                         y_pos(lp, y2) >= y_pos(lp, y) =>
                             lp.K_BD[<<a, e, y>>] >= lp.K_OPP[<<a, e, y2>>]

\* a solution that invests in the first year, uses no reverse capacity in
\* that year and uses some in the second
C29_Witness ==
    /\ Solved
    /\ Len(lp.Y) >= 2
    /\ lp.is_bid["A1"] = 0
    /\ lp.B_BD[<<"A1", lp.Y[1]>>] = 1
    /\ lp.K_OPP[<<"A1", "G", lp.Y[1]>>] = 0
    /\ lp.K_OPP[<<"A1", "G", lp.Y[2]>>] > 0
    /\ lp.K_BD[<<"A1", "G", lp.Y[1]>>] > 0

\* ------------------------------------------------------------------------
\* C23
\* ------------------------------------------------------------------------

\* the sum of the bidir column over the rows of arc a is strictly positive
BidirSumPositive(a) ==
    LET rows == RowsOfArc(ArcWork(dat.arcs), a)
    IN  SumSeq([i \in DOMAIN rows |-> rows[i].bidir]) > 0

\* the arcs opposite to a in the returned dictionary
OppositesOf(a) == {b \in Range(Result.a_values) : Result.opp[<<a, b>>] = 1}

RowsDisagree(work) ==
    \E r1, r2 \in Range(work) :
        r1.a = r2.a /\ (r1.start # r2.start \/ r1.end # r2.end)

C24_EndpointAgreement ==
    Returned =>
        LET work == ArcWork(dat.arcs) IN
        /\ ~RowsDisagree(work)
        /\ \A r \in Range(work) :
               /\ <<r.a, r.start>> \in DOMAIN Result.a_s
               /\ <<r.a, r.end>> \in DOMAIN Result.a_e
        /\ \A a \in Range(Result.a_values) :
               /\ Cardinality({k \in DOMAIN Result.a_s : k[1] = a}) = 1
               /\ Cardinality({k \in DOMAIN Result.a_e : k[1] = a}) = 1

\* ------------------------------------------------------------------------
\* C25: regasification rows of a year other than 2025 are ignored.  Whenever
\* load_inputs returns, c_lr and ub_r, the node domain and the fuel domain
\* of the result are those obtained from the same tables with every
\* regasification row of another year removed.
\* ------------------------------------------------------------------------
\* the regasification table without the rows of a year other than 2025
\* (a blank year is read as 2025)
WithoutOtherYears(df_r) ==
    SelectSeq(df_r, LAMBDA r : r.y = <<>> \/ r.y[1] = RegasYear)

\* lines 984-999 on the tables d: the domains and regasification maps
DomainsAfterRegas(d) ==
    LET n == ExtractNodeStructures(d.nodes)
        p == ExtractProductionData(d.production)
        c == ExtractConsumptionData(d.consumption, n.n_in_2)
        es == FirstFuelDomain(d, c.f_values, p.f_values)
        r == ExtractRegasData(d.regasification, n.n_values, es)
        ns == SortedBy(NodeOrder, Range(n.n_values) \cup Range(r.regas_nodes))
        b == BackfillRegas(r, ns, es)
    IN  [n_values |-> ns, e_values |-> es, c_lr |-> b.c_lr, ub_r |-> b.ub_r]

C25_OtherYearsIgnored ==
    Returned =>
        LET base == DomainsAfterRegas(
                        [dat EXCEPT !.regasification = WithoutOtherYears(@)])
        IN  /\ Result.c_lr = base.c_lr
            /\ Result.ub_r = base.ub_r
            /\ Range(Result.n_values)
                   = Range(base.n_values) \cup Range(arcs[15])
                         \cup Range(stor.stor_nodes)
            /\ Range(Result.e_values) = Range(base.e_values) \cup Range(arcs[16])

\* ------------------------------------------------------------------------
\* C26: node membership.  Whenever load_inputs returns, every node of the
\* final n_values has exactly one key in n_in_c, exactly one in n_in_2 and
\* exactly one in n_in_r.
\* ------------------------------------------------------------------------
KeysOfNode(m, n) == {k \in DOMAIN m : k[1] = n}

C26_NodeMembership ==
    Returned =>
        \A n \in Range(Result.n_values) :
            /\ Cardinality(KeysOfNode(Result.n_in_c, n)) = 1
            /\ Cardinality(KeysOfNode(Result.n_in_2, n)) = 1
            /\ Cardinality(KeysOfNode(Result.n_in_r, n)) = 1

\* ------------------------------------------------------------------------
\* C27: one rule for YearStep.  With a valid Pipe,Len,Std and a non-empty
\* arcs table, load_inputs returns exactly when build_yearstep of other.csv
\* is strictly positive, and the f_ab it returns is Bidir,Fix divided by the
\* value it returns as yearstep.
\* ------------------------------------------------------------------------
C27_YearStepOneRule ==
    pc = "done" =>
        /\ Returned <=> BuildYearstep(dat.other) > 0
        /\ Returned =>
               \A k \in DOMAIN Result.f_ab :
                   Result.f_ab[k]
                       = Div(OValue(DatONorm(dat.other), "bidir", "FIX", "", 0),
                             Result.yearstep)

\* ------------------------------------------------------------------------
\* C28: the penalty cost covers the fuel domain.  For the model built from a
\* returned load_inputs, for every penalty class z of Z and every fuel e of E,
\* the parameter c_z(z,e) is the fallback-chain value penalty(z,e).
\* ------------------------------------------------------------------------
C28_PenaltyCoversFuels ==
    Returned =>
        LET Z == {k[1] : k \in DOMAIN Result.c_z}
            E == CleanList(Result.e_values)
            c_z == model_c_z(Result.c_z, Z, E)
            lookup == BuildPenaltyLookup(dat.other)
        IN  \A z \in Z, e \in E : c_z[<<z, e>>] = PenaltyValue(lookup, z, e)

\* ------------------------------------------------------------------------
\* C30: loaded demand and production capacity lie inside the model domain.
\* Whenever load_inputs returns, every key (n,e,y,h) of dmd and of cap_p has
\* n in n_values, e in e_values, y in y_values and h in h_values.
\* ------------------------------------------------------------------------
InsideDomain(k) ==
    /\ k[1] \in Range(Result.n_values)
    /\ k[2] \in Range(Result.e_values)
    /\ k[3] \in Range(Result.y_values)
    /\ k[4] \in Range(Result.h_values)

C30_DataInsideDomain ==
    Returned =>
        /\ \A k \in DOMAIN Result.dmd : InsideDomain(k)
        /\ \A k \in DOMAIN Result.cap_p : InsideDomain(k)

====
